---- MODULE Spec2Model ----
(***************************************************************************)
(* msk: a local secret vault.  One encrypted file per secret.              *)
(*                                                                         *)
(* Modelled revision: app.MSKService (no-context revision), the byte-slice *)
(* storage.Store, encryption.ArgonCrypt over format.Marshal*/Unmarshal*.   *)
(*                                                                         *)
(* Byte strings are sequences of naturals 0..255; names are byte strings   *)
(* (ASCII codes).  The vault directory is a map from file name to entry.   *)
(*                                                                         *)
(* Library primitives are idealised:                                       *)
(*  - argon2.IDKey is a collision-free deterministic function, kept as the *)
(*    term [password, salt, time, memory, threads, keyLen];                *)
(*  - AES-256-GCM is a deterministic AEAD: Seal masks the plaintext with   *)
(*    a key/nonce dependent stream and appends a 16-byte tag that binds    *)
(*    key, nonce and body; Open accepts exactly what Seal produced.        *)
(***************************************************************************)
EXTENDS Integers, Sequences, FiniteSets, TLC

(***************************************************************************)
(* Bounds of the model                                                     *)
(***************************************************************************)
\* longest password drawn
MaxPwLen == 1
\* largest CreatedAt instant drawn for time.Now()
MaxTime == 1
\* longest ciphertext drawn for the envelope codec
MaxCtLen == 2
\* most Encrypt calls in one run of the entropy source
MaxEncrypts == 3

(***************************************************************************)
(* Program constants                                                       *)
(***************************************************************************)
MSK_MAGIC_VALUE == <<77, 83, 75>>
MSK_FILE_VERSION == 1
MSK_MAGIC_SIZE == 3
MSK_VERSION_SIZE == 1
MSK_SALT_SIZE == 16
MSK_NONCE_SIZE == 12
MSK_HEADER_SIZE == MSK_MAGIC_SIZE + MSK_VERSION_SIZE + MSK_SALT_SIZE + MSK_NONCE_SIZE
MSK_NAME_LENGTH_SIZE == 2
MSK_PASSWORD_LENGTH_SIZE == 2
ArgonTime == 6
ArgonMemory == 128 * 1024
ArgonThreads == 4
ArgonKeyLen == 32
GcmTagSize == 16
\* the zero value of time.Time, what an unset Secret.CreatedAt holds
ZeroTime == 0

(***************************************************************************)
(* Byte-string helpers                                                     *)
(***************************************************************************)
RECURSIVE Sum(_)
Sum(s) == IF s = <<>> THEN 0 ELSE Head(s) + Sum(Tail(s))

\* zero-padded copy of s in n bytes (copy() into a fresh make([]byte, n))
PadTo(s, n) == [i \in 1..n |-> IF i <= Len(s) THEN s[i] ELSE 0]

\* strings.ToLower on ASCII
ToLowerByte(b) == IF b \in 65..90 THEN b + 32 ELSE b
ToLower(s) == [i \in 1..Len(s) |-> ToLowerByte(s[i])]

\* strings.Contains(s, sub)
Contains(s, sub) ==
    \E i \in 1..(Len(s) - Len(sub) + 1) : SubSeq(s, i, i + Len(sub) - 1) = sub

\* lexicographic order on byte strings (os.ReadDir sorts by file name)
RECURSIVE SeqLess(_, _)
SeqLess(a, b) ==
    IF b = <<>> THEN FALSE
    ELSE IF a = <<>> THEN TRUE
    ELSE IF Head(a) # Head(b) THEN Head(a) < Head(b)
    ELSE SeqLess(Tail(a), Tail(b))

RECURSIVE SortNames(_)
SortNames(S) ==
    IF S = {} THEN <<>>
    ELSE LET m == CHOOSE x \in S : \A y \in S \ {x} : SeqLess(x, y)
         IN  <<m>> \o SortNames(S \ {m})

\* binary.BigEndian.PutUint16(buf, uint16(n)): the conversion keeps 16 bits
PutUint16(n) == << (n % 65536) \div 256, n % 256 >>
\* binary.BigEndian.Uint16(data[off:]) with a 0-based offset
Uint16At(data, off) == data[off + 1] * 256 + data[off + 2]

(***************************************************************************)
(* internal/format: plaintext record and envelope codecs                   *)
(***************************************************************************)
EmptySecret == [Name |-> <<>>, Password |-> <<>>, CreatedAt |-> ZeroTime]

getBufferLength(secret) ==
    MSK_NAME_LENGTH_SIZE + Len(secret.Name) +
    MSK_PASSWORD_LENGTH_SIZE + Len(secret.Password)

MarshalSecret(secret) ==
    PadTo(PutUint16(Len(secret.Name)) \o secret.Name \o
          PutUint16(Len(secret.Password)) \o secret.Password,
          getBufferLength(secret))

\* UnmarshalSecret refusing a password that ends where the buffer ends
UnmarshalSecret_RejectExact(data) ==
    LET bad == [err |-> "ErrCorruptedFile", secret |-> EmptySecret] IN
    IF Len(data) < MSK_NAME_LENGTH_SIZE THEN bad
    ELSE
      LET nameLen == Uint16At(data, 0)
          off1 == MSK_NAME_LENGTH_SIZE
      IN
      IF off1 + nameLen > Len(data) THEN bad
      ELSE
        LET name == SubSeq(data, off1 + 1, off1 + nameLen)
            off2 == off1 + nameLen
        IN
        IF off2 + MSK_PASSWORD_LENGTH_SIZE > Len(data) THEN bad
        ELSE
          LET passLen == Uint16At(data, off2)
              off3 == off2 + MSK_PASSWORD_LENGTH_SIZE
          IN
          IF off3 + passLen >= Len(data) THEN bad
          ELSE [err |-> "nil",
                secret |-> [Name |-> name,
                            Password |-> SubSeq(data, off3 + 1, off3 + passLen),
                            CreatedAt |-> ZeroTime]]

\* format.UnmarshalSecret
UnmarshalSecret(data) ==
    LET bad == [err |-> "ErrCorruptedFile", secret |-> EmptySecret] IN
    IF Len(data) < MSK_NAME_LENGTH_SIZE THEN bad
    ELSE
      LET nameLen == Uint16At(data, 0)
          off1 == MSK_NAME_LENGTH_SIZE
      IN
      IF off1 + nameLen > Len(data) THEN bad
      ELSE
        LET name == SubSeq(data, off1 + 1, off1 + nameLen)
            off2 == off1 + nameLen
        IN
        IF off2 + MSK_PASSWORD_LENGTH_SIZE > Len(data) THEN bad
        ELSE
          LET passLen == Uint16At(data, off2)
              off3 == off2 + MSK_PASSWORD_LENGTH_SIZE
          IN
          IF off3 + passLen > Len(data) THEN bad
          ELSE [err |-> "nil",
                secret |-> [Name |-> name,
                            Password |-> SubSeq(data, off3 + 1, off3 + passLen),
                            CreatedAt |-> ZeroTime]]

\* MarshalFile refusing an empty ciphertext
MarshalFile_RejectEmpty(salt, nonce, data) ==
    IF Len(salt) # MSK_SALT_SIZE THEN [err |-> "ErrSaltSize", file |-> <<>>]
    ELSE IF Len(nonce) # MSK_NONCE_SIZE THEN [err |-> "ErrNonceSize", file |-> <<>>]
    ELSE IF data = <<>> THEN [err |-> "ErrCorruptedFile", file |-> <<>>]
    ELSE [err |-> "nil",
          file |-> MSK_MAGIC_VALUE \o <<MSK_FILE_VERSION>> \o salt \o nonce \o data]

\* format.MarshalFile
MarshalFile(salt, nonce, data) ==
    IF Len(salt) # MSK_SALT_SIZE THEN [err |-> "ErrSaltSize", file |-> <<>>]
    ELSE IF Len(nonce) # MSK_NONCE_SIZE THEN [err |-> "ErrNonceSize", file |-> <<>>]
    ELSE [err |-> "nil",
          file |-> MSK_MAGIC_VALUE \o <<MSK_FILE_VERSION>> \o salt \o nonce \o data]

UnmarshalFile(data) ==
    LET fail(e) == [err |-> e, salt |-> <<>>, nonce |-> <<>>, secret |-> <<>>] IN
    IF Len(data) < MSK_HEADER_SIZE THEN fail("ErrCorruptedFile")
    ELSE IF SubSeq(data, 1, MSK_MAGIC_SIZE) # MSK_MAGIC_VALUE THEN fail("ErrCorruptedFile")
    ELSE IF Len(data) <= MSK_MAGIC_SIZE THEN fail("ErrCorruptedFile")
    ELSE IF data[MSK_MAGIC_SIZE + 1] # MSK_FILE_VERSION THEN fail("ErrUnsupportedFileVersion")
    ELSE
      LET off0 == MSK_MAGIC_SIZE + MSK_VERSION_SIZE
          off1 == off0 + MSK_SALT_SIZE
          off2 == off1 + MSK_NONCE_SIZE
      IN [err |-> "nil",
          salt |-> SubSeq(data, off0 + 1, off1),
          nonce |-> SubSeq(data, off1 + 1, off2),
          secret |-> SubSeq(data, off2 + 1, Len(data))]

(***************************************************************************)
(* internal/encryption: key derivation and the cipher                      *)
(***************************************************************************)
\* ArgonCrypt.mk == nil
NoKey == [nil |-> TRUE, bytes |-> <<>>]

\* crypto/rand output of n bytes, determined by the entropy drawn
randomBytes(n, seed) == [i \in 1..n |-> (seed + i) % 256]

\* getArgonDeriveKey with the cost parameters of the earlier revision
getArgonDeriveKey_Earlier(password, salt) ==
    IF Len(salt) # MSK_SALT_SIZE THEN [err |-> "ErrInvalidSalt", key |-> <<>>]
    ELSE IF Len(password) = 0 THEN [err |-> "ErrInvalidPass", key |-> <<>>]
    ELSE [err |-> "nil",
          key |-> [password |-> password, salt |-> salt,
                   time |-> 3, memory |-> 64 * 1024,
                   threads |-> ArgonThreads, keyLen |-> ArgonKeyLen]]

\* getArgonDeriveKey: argon2.IDKey is a function of its six arguments
getArgonDeriveKey(password, salt) ==
    IF Len(salt) # MSK_SALT_SIZE THEN [err |-> "ErrInvalidSalt", key |-> <<>>]
    ELSE IF Len(password) = 0 THEN [err |-> "ErrInvalidPass", key |-> <<>>]
    ELSE [err |-> "nil",
          key |-> [password |-> password, salt |-> salt,
                   time |-> ArgonTime, memory |-> ArgonMemory,
                   threads |-> ArgonThreads, keyLen |-> ArgonKeyLen]]

\* aes.NewCipher accepts 16, 24 and 32 byte keys only
aesNewCipher(key) == IF key.keyLen \in {16, 24, 32} THEN "nil" ELSE "ErrKeySize"

\* the stream byte the body is masked with
KeyStream(key, nonce) == (Sum(key.password) + Sum(key.salt) + Sum(nonce)) % 256

\* the 16-byte authentication tag over key, nonce and body
GcmTag(key, nonce, body) ==
    << Len(key.password) % 256, Len(body) % 256, Sum(body) % 256,
       Sum(key.salt) % 256, Sum(nonce) % 256,
       (key.time + key.threads) % 256, (key.memory \div 1024) % 256 >>
    \o PadTo(key.password, GcmTagSize - 7)

\* gcm.Seal(nil, nonce, plaintext, nil)
gcmSeal(key, nonce, pt) ==
    LET ks == KeyStream(key, nonce)
        body == [i \in 1..Len(pt) |-> (pt[i] + ks + i) % 256]
    IN  body \o GcmTag(key, nonce, body)

\* gcm.Open replaced by a mode that does not authenticate
gcmOpen_NoAuth(key, nonce, data) ==
    IF Len(data) < GcmTagSize THEN [err |-> "ErrOpen", pt |-> <<>>]
    ELSE
      LET body == SubSeq(data, 1, Len(data) - GcmTagSize)
          ks == KeyStream(key, nonce)
      IN [err |-> "nil",
          pt |-> [i \in 1..Len(body) |-> (body[i] + 512 - ks - i) % 256]]

\* gcm.Open(nil, nonce, data, nil)
gcmOpen(key, nonce, data) ==
    IF Len(data) < GcmTagSize THEN [err |-> "ErrOpen", pt |-> <<>>]
    ELSE
      LET body == SubSeq(data, 1, Len(data) - GcmTagSize)
          tag == SubSeq(data, Len(data) - GcmTagSize + 1, Len(data))
          ks == KeyStream(key, nonce)
      IN
      IF tag # GcmTag(key, nonce, body) THEN [err |-> "ErrOpen", pt |-> <<>>]
      ELSE [err |-> "nil",
            pt |-> [i \in 1..Len(body) |-> (body[i] + 512 - ks - i) % 256]]

\* Decrypt reporting a failed gcm.Open as a corrupted file
Decrypt_WrongErr(amk, cipherData) ==
    LET f == UnmarshalFile(cipherData) IN
    IF f.err # "nil" THEN [err |-> f.err, secret |-> EmptySecret, kdf |-> FALSE]
    ELSE IF amk.nil THEN [err |-> "ErrNoMasterKey", secret |-> EmptySecret, kdf |-> FALSE]
    ELSE
      LET k == getArgonDeriveKey(amk.bytes, f.salt)
          o == gcmOpen(k.key, f.nonce, f.secret)
      IN
      IF k.err # "nil" THEN [err |-> k.err, secret |-> EmptySecret, kdf |-> TRUE]
      ELSE IF o.err # "nil"
        THEN [err |-> "ErrCorruptedFile", secret |-> EmptySecret, kdf |-> TRUE]
      ELSE [err |-> "nil", secret |-> UnmarshalSecret(o.pt).secret, kdf |-> TRUE]

\* Decrypt looking for the master key before it decodes the envelope
Decrypt_KeyFirst(amk, cipherData) ==
    IF amk.nil THEN [err |-> "ErrNoMasterKey", secret |-> EmptySecret, kdf |-> FALSE]
    ELSE
      LET f == UnmarshalFile(cipherData) IN
      IF f.err # "nil" THEN [err |-> f.err, secret |-> EmptySecret, kdf |-> FALSE]
      ELSE
        LET k == getArgonDeriveKey(amk.bytes, f.salt)
            o == gcmOpen(k.key, f.nonce, f.secret)
        IN
        IF k.err # "nil" THEN [err |-> k.err, secret |-> EmptySecret, kdf |-> TRUE]
        ELSE IF o.err # "nil"
          THEN [err |-> "ErrDecryption", secret |-> EmptySecret, kdf |-> TRUE]
        ELSE [err |-> "nil", secret |-> UnmarshalSecret(o.pt).secret, kdf |-> TRUE]

\* ArgonCrypt.Decrypt; kdf records whether getArgonDeriveKey was called
Decrypt(amk, cipherData) ==
    LET f == UnmarshalFile(cipherData) IN
    IF f.err # "nil" THEN [err |-> f.err, secret |-> EmptySecret, kdf |-> FALSE]
    ELSE IF amk.nil THEN [err |-> "ErrNoMasterKey", secret |-> EmptySecret, kdf |-> FALSE]
    ELSE
      LET k == getArgonDeriveKey(amk.bytes, f.salt) IN
      IF k.err # "nil" THEN [err |-> k.err, secret |-> EmptySecret, kdf |-> TRUE]
      ELSE IF aesNewCipher(k.key) # "nil"
        THEN [err |-> aesNewCipher(k.key), secret |-> EmptySecret, kdf |-> TRUE]
      ELSE
        LET o == gcmOpen(k.key, f.nonce, f.secret) IN
        IF o.err # "nil" THEN [err |-> "ErrDecryption", secret |-> EmptySecret, kdf |-> TRUE]
        ELSE [err |-> "nil", secret |-> UnmarshalSecret(o.pt).secret, kdf |-> TRUE]

\* ArgonCrypt.Encrypt with the two random draws made explicit
\* Encrypt sealing every record under one and the same nonce
Encrypt_StaticNonce(amk, secret, saltSeed, nonceSeed) ==
    LET salt == randomBytes(MSK_SALT_SIZE, saltSeed) IN
    IF amk.nil THEN [err |-> "ErrNoMasterKey", data |-> <<>>]
    ELSE
      LET k == getArgonDeriveKey(amk.bytes, salt) IN
      IF k.err # "nil" THEN [err |-> k.err, data |-> <<>>]
      ELSE IF aesNewCipher(k.key) # "nil" THEN [err |-> aesNewCipher(k.key), data |-> <<>>]
      ELSE
        LET nonce == randomBytes(MSK_NONCE_SIZE, 0)
            fileBytes == MarshalSecret(secret)
            cipherBytes == gcmSeal(k.key, nonce, fileBytes)
            m == MarshalFile(salt, nonce, cipherBytes)
        IN [err |-> m.err, data |-> m.file]

\* ArgonCrypt.Encrypt; the two seeds are what the entropy source yields to
\* the two randomBytes calls
Encrypt(amk, secret, saltSeed, nonceSeed) ==
    LET salt == randomBytes(MSK_SALT_SIZE, saltSeed) IN
    IF amk.nil THEN [err |-> "ErrNoMasterKey", data |-> <<>>]
    ELSE
      LET k == getArgonDeriveKey(amk.bytes, salt) IN
      IF k.err # "nil" THEN [err |-> k.err, data |-> <<>>]
      ELSE IF aesNewCipher(k.key) # "nil" THEN [err |-> aesNewCipher(k.key), data |-> <<>>]
      ELSE
        LET nonce == randomBytes(MSK_NONCE_SIZE, nonceSeed)
            fileBytes == MarshalSecret(secret)
            cipherBytes == gcmSeal(k.key, nonce, fileBytes)
            m == MarshalFile(salt, nonce, cipherBytes)
        IN [err |-> m.err, data |-> m.file]

\* ArgonCrypt.ConfigMK: the enclave holds a private copy of the bytes
ConfigMK(bytes) == [nil |-> FALSE, bytes |-> bytes]

\* DestroyMK leaving an enclave with an empty key
DestroyMK_Empty == [nil |-> FALSE, bytes |-> <<>>]

\* ArgonCrypt.DestroyMK
DestroyMK == NoKey

(***************************************************************************)
(* Inputs of the model                                                     *)
(***************************************************************************)
\* secret names: "a", "A" and "b"
Names == { <<97>>, <<65>>, <<98>> }
\* passwords given to add/update: the empty one and one of the longest
Passwords == { <<>>, [i \in 1..MaxPwLen |-> 255] }
\* master passwords: "k" and "k2"
MKs == { <<107>>, <<107, 50>> }
\* entropy drawn by randomBytes for the salt and for the nonce
SaltSeeds == {0}
NonceSeeds == {3}
Times == 1..MaxTime
\* processes running calls against one vault
Procs == {1}

DotMsk == <<46, 109, 115, 107>>
DotTmp == <<46, 116, 109, 112>>

VARIABLES
    files,    \* the vault directory: file name -> [dir, data]
    mk,       \* ArgonCrypt.mk
    call,     \* call[p]: the call process p is inside and its position
    ret,      \* ret[p]: what the last call of process p returned; denied is the path
              \*         a GetSecret was refused on in the calls just before
    stored,   \* history: path -> master key and password of the last completed save
    cx        \* the inputs and outputs of a codec run

vars == <<files, mk, call, ret, stored, cx>>

(***************************************************************************)
(* internal/storage: the vault repository                                  *)
(***************************************************************************)
\* getFilePath keeping the letter case of the name
getFilePath_NoLower(name) == name \o DotMsk

\* Store.getFilePath, relative to Store.dir
getFilePath(name) == ToLower(name) \o DotMsk

tmpPathOf(name) == getFilePath(name) \o DotTmp

\* os.Stat(path) succeeds
StatOk(fs, path) == path \in DOMAIN fs

\* FileExists looking the name up as it was typed
FileExists_CaseSensitive(fs, name) == StatOk(fs, name \o DotMsk)

\* Store.FileExists
FileExists(fs, name) == StatOk(fs, getFilePath(name))

\* Store.GetFile
GetFile(fs, name) ==
    LET path == getFilePath(name) IN
    IF path \notin DOMAIN fs THEN [err |-> "ErrNotFound", data |-> <<>>]
    ELSE IF fs[path].dir THEN [err |-> "ErrIO", data |-> <<>>]
    ELSE [err |-> "nil", data |-> fs[path].data]

\* the directory without one entry (os.Remove)
RemoveEntry(fs, path) == [q \in DOMAIN fs \ {path} |-> fs[q]]

\* the directory with a regular file of that content at path
PutFile(fs, path, bytes) == (path :> [dir |-> FALSE, data |-> bytes]) @@ fs

\* DeleteFile reporting success without removing the file
DeleteFile_Keep(fs, name) ==
    LET path == getFilePath(name) IN
    IF ~StatOk(fs, path) THEN [err |-> "ErrNotFound", fs |-> fs]
    ELSE [err |-> "nil", fs |-> fs]

\* DeleteFile dropping the error of a missing file
DeleteFile_Swallow(fs, name) ==
    LET path == getFilePath(name) IN
    IF ~StatOk(fs, path) THEN [err |-> "nil", fs |-> fs]
    ELSE [err |-> "nil", fs |-> RemoveEntry(fs, path)]

\* Store.DeleteFile: the error returned and the directory afterwards
DeleteFile(fs, name) ==
    LET path == getFilePath(name) IN
    IF ~StatOk(fs, path) THEN [err |-> "ErrNotFound", fs |-> fs]
    ELSE IF fs[path].dir THEN [err |-> "ErrInvalidSecret", fs |-> fs]
    ELSE [err |-> "nil", fs |-> RemoveEntry(fs, path)]

\* Store.GetFiles: os.ReadDir order, directories and foreign names skipped
GetFiles(fs) ==
    LET Keep(nm) == ~fs[nm].dir /\ Contains(nm, DotMsk)
    IN  [err |-> "nil", names |-> SelectSeq(SortNames(DOMAIN fs), Keep)]

(***************************************************************************)
(* Calls in flight and their results                                       *)
(***************************************************************************)
NoFile == [exists |-> FALSE, data |-> <<>>]

\* the regular file at path, if any
Snapshot(fs, path) ==
    IF path \in DOMAIN fs /\ ~fs[path].dir
    THEN [exists |-> TRUE, data |-> fs[path].data] ELSE NoFile

Idle == [op |-> "idle", pc |-> "idle", name |-> <<>>, pw |-> <<>>, data |-> <<>>,
         err |-> "nil", stage |-> "none", prev |-> NoFile, encmk |-> <<>>,
         full |-> FALSE, synced |-> FALSE]

NoRet == [op |-> "none", name |-> <<>>, pw |-> <<>>, err |-> "nil", out |-> <<>>,
          names |-> <<>>, enc |-> FALSE, wrote |-> FALSE, stage |-> "none",
          prev |-> NoFile, denied |-> <<>>]

AllIdle == \A q \in Procs : call[q].op = "idle"

Return(p, r) ==
    /\ ret' = [ret EXCEPT ![p] = r]
    /\ call' = [call EXCEPT ![p] = Idle]

\* the writes a failing tmpFile.Write may have completed
ShortWrites(data) == {0, Len(data) - 1}

(***************************************************************************)
(* Store.SaveFile, one step per system call                                *)
(***************************************************************************)
\* SaveFile entered by process p on behalf of service call op
EnterSave(p, op, name, pw, bytes) ==
    /\ call' = [call EXCEPT ![p] =
                  [Idle EXCEPT !.op = op, !.pc = "open", !.name = name, !.pw = pw,
                               !.data = bytes, !.encmk = mk.bytes,
                               !.prev = Snapshot(files, getFilePath(name))]]
    /\ ret' = [ret EXCEPT ![p] = NoRet]

\* SaveFile opening the real name instead of the temporary one
SaveOpen_InPlace(p) ==
    /\ call[p].pc = "open"
    /\ files' = PutFile(files, getFilePath(call[p].name), <<>>)
    /\ call' = [call EXCEPT ![p].pc = "write"]
    /\ UNCHANGED <<mk, ret, stored, cx>>

\* os.OpenFile(tmpPath, O_CREATE|O_WRONLY|O_TRUNC) succeeds
SaveOpen(p) ==
    /\ call[p].pc = "open"
    /\ files' = PutFile(files, tmpPathOf(call[p].name), <<>>)
    /\ call' = [call EXCEPT ![p].pc = "write"]
    /\ UNCHANGED <<mk, ret, stored, cx>>

\* os.OpenFile fails: SaveFile returns before the cleanup is registered
SaveOpenFail(p) ==
    /\ call[p].pc = "open"
    /\ Return(p, [NoRet EXCEPT !.op = call[p].op, !.name = call[p].name,
                               !.err = "ErrIO", !.enc = TRUE,
                               !.stage = "open", !.prev = call[p].prev])
    /\ UNCHANGED <<files, mk, stored, cx>>

\* tmpFile.Write writes the whole envelope
SaveWrite(p) ==
    /\ call[p].pc = "write"
    /\ LET tmp == tmpPathOf(call[p].name) IN
       files' = IF tmp \in DOMAIN files THEN PutFile(files, tmp, call[p].data) ELSE files
    /\ call' = [call EXCEPT ![p].pc = "sync", ![p].full = TRUE]
    /\ UNCHANGED <<mk, ret, stored, cx>>

\* tmpFile.Write fails after a short write
SaveWriteFail(p) ==
    /\ call[p].pc = "write"
    /\ \E k \in ShortWrites(call[p].data) :
         LET tmp == tmpPathOf(call[p].name) IN
         files' = IF tmp \in DOMAIN files
                  THEN PutFile(files, tmp, SubSeq(call[p].data, 1, k)) ELSE files
    /\ call' = [call EXCEPT ![p].pc = "defer", ![p].err = "ErrIO", ![p].stage = "write"]
    /\ UNCHANGED <<mk, ret, stored, cx>>

\* tmpFile.Sync
SaveSync(p) ==
    /\ call[p].pc = "sync"
    /\ call' = [call EXCEPT ![p].pc = "close", ![p].synced = TRUE]
    /\ UNCHANGED <<files, mk, ret, stored, cx>>

SaveSyncFail(p) ==
    /\ call[p].pc = "sync"
    /\ call' = [call EXCEPT ![p].pc = "defer", ![p].err = "ErrIO", ![p].stage = "sync"]
    /\ UNCHANGED <<files, mk, ret, stored, cx>>

\* tmpFile.Close
SaveClose(p) ==
    /\ call[p].pc = "close"
    /\ call' = [call EXCEPT ![p].pc = "rename"]
    /\ UNCHANGED <<files, mk, ret, stored, cx>>

SaveCloseFail(p) ==
    /\ call[p].pc = "close"
    /\ call' = [call EXCEPT ![p].pc = "defer", ![p].err = "ErrIO", ![p].stage = "close"]
    /\ UNCHANGED <<files, mk, ret, stored, cx>>

\* os.Rename(tmpPath, path) can succeed
RenameOk(fs, name) ==
    /\ tmpPathOf(name) \in DOMAIN fs
    /\ getFilePath(name) \in DOMAIN fs => ~fs[getFilePath(name)].dir

\* a rename that keeps an existing target
SaveRename_KeepOld(p) ==
    /\ call[p].pc = "rename"
    /\ RenameOk(files, call[p].name)
    /\ LET tmp == tmpPathOf(call[p].name)
           path == getFilePath(call[p].name)
       IN /\ files' = IF path \in DOMAIN files THEN RemoveEntry(files, tmp)
                      ELSE PutFile(RemoveEntry(files, tmp), path, files[tmp].data)
          /\ stored' = (path :> [mk |-> call[p].encmk, pw |-> call[p].pw]) @@ stored
    /\ call' = [call EXCEPT ![p].pc = "dirsync"]
    /\ UNCHANGED <<mk, ret, cx>>

\* os.Rename moves the temporary file over the real name
SaveRename(p) ==
    /\ call[p].pc = "rename"
    /\ RenameOk(files, call[p].name)
    /\ LET tmp == tmpPathOf(call[p].name)
           path == getFilePath(call[p].name)
       IN /\ files' = PutFile(RemoveEntry(files, tmp), path, files[tmp].data)
          /\ stored' = (path :> [mk |-> call[p].encmk, pw |-> call[p].pw]) @@ stored
    /\ call' = [call EXCEPT ![p].pc = "dirsync"]
    /\ UNCHANGED <<mk, ret, cx>>

SaveRenameFail(p) ==
    /\ call[p].pc = "rename"
    /\ call' = [call EXCEPT ![p].pc = "defer", ![p].err = "ErrIO", ![p].stage = "rename"]
    /\ UNCHANGED <<files, mk, ret, stored, cx>>

\* os.Open(dir) and dir.Sync succeed
SaveDirSync(p) ==
    /\ call[p].pc = "dirsync"
    /\ call' = [call EXCEPT ![p].pc = "defer"]
    /\ UNCHANGED <<files, mk, ret, stored, cx>>

\* os.Open(dir) or dir.Sync fails: the error is dropped
SaveDirSyncFail(p) ==
    /\ call[p].pc = "dirsync"
    /\ call' = [call EXCEPT ![p].pc = "defer", ![p].stage = "dirsync"]
    /\ UNCHANGED <<files, mk, ret, stored, cx>>

\* SaveFile returning without the deferred os.Remove(tmpPath)
SaveReturn_KeepTmp(p) ==
    /\ call[p].pc = "defer"
    /\ Return(p, [NoRet EXCEPT !.op = call[p].op, !.name = call[p].name,
                               !.pw = IF call[p].err = "nil" THEN call[p].pw ELSE <<>>,
                               !.err = call[p].err, !.enc = TRUE,
                               !.wrote = TRUE, !.stage = call[p].stage,
                               !.prev = call[p].prev])
    /\ UNCHANGED <<files, mk, stored, cx>>

\* the deferred tmpFile.Close and os.Remove(tmpPath), then the return
SaveReturn(p) ==
    /\ call[p].pc = "defer"
    /\ LET tmp == tmpPathOf(call[p].name) IN
       files' = IF tmp \in DOMAIN files THEN RemoveEntry(files, tmp) ELSE files
    /\ Return(p, [NoRet EXCEPT !.op = call[p].op, !.name = call[p].name,
                               !.pw = IF call[p].err = "nil" THEN call[p].pw ELSE <<>>,
                               !.err = call[p].err, !.enc = TRUE,
                               !.wrote = TRUE, !.stage = call[p].stage,
                               !.prev = call[p].prev])
    /\ UNCHANGED <<mk, stored, cx>>

(***************************************************************************)
(* internal/app: MSKService                                                *)
(***************************************************************************)
\* MSKService.GetSecret
GetSecret(fs, amk, name) ==
    IF ~FileExists(fs, name) THEN [err |-> "ErrSecretNotFound", out |-> <<>>]
    ELSE
      LET g == GetFile(fs, name) IN
      IF g.err # "nil" THEN [err |-> g.err, out |-> <<>>]
      ELSE
        LET d == Decrypt(amk, g.data) IN
        IF d.err # "nil" THEN [err |-> d.err, out |-> <<>>]
        ELSE [err |-> "nil", out |-> d.secret.Password]

\* MSKService.DeleteSecret
DeleteSecret(fs, name) ==
    IF ~FileExists(fs, name) THEN [err |-> "ErrSecretNotFound", fs |-> fs]
    ELSE DeleteFile(fs, name)

\* MSKService.ListSecrets
ListSecrets(fs) == GetFiles(fs)

\* MSKService.AddSecret on a name whose file exists
AddSecretExists(p) ==
    /\ call[p].op = "idle"
    /\ \E name \in Names, pw \in Passwords :
         /\ FileExists(files, name)
         /\ Return(p, [NoRet EXCEPT !.op = "AddSecret", !.name = name,
                                    !.err = "ErrSecretExists"])
    /\ UNCHANGED <<files, mk, stored, cx>>

\* MSKService.AddSecret on a free name: Encrypt, then SaveFile is entered
AddSecretEncrypt(p) ==
    /\ call[p].op = "idle"
    /\ \E name \in Names, pw \in Passwords, ss \in SaltSeeds, ns \in NonceSeeds, t \in Times :
         LET e == Encrypt(mk, [Name |-> name, Password |-> pw, CreatedAt |-> t], ss, ns) IN
         /\ ~FileExists(files, name)
         /\ IF e.err # "nil"
            THEN Return(p, [NoRet EXCEPT !.op = "AddSecret", !.name = name,
                                         !.err = e.err, !.enc = TRUE])
            ELSE EnterSave(p, "AddSecret", name, pw, e.data)
    /\ UNCHANGED <<files, mk, stored, cx>>

\* MSKService.UpdateSecret on a name with no file
UpdateSecretMissing(p) ==
    /\ call[p].op = "idle"
    /\ \E name \in Names, pw \in Passwords :
         /\ ~FileExists(files, name)
         /\ Return(p, [NoRet EXCEPT !.op = "UpdateSecret", !.name = name,
                                    !.err = "ErrSecretNotFound"])
    /\ UNCHANGED <<files, mk, stored, cx>>

\* MSKService.UpdateSecret on an existing name: Encrypt, then SaveFile is entered
UpdateSecretEncrypt(p) ==
    /\ call[p].op = "idle"
    /\ \E name \in Names, pw \in Passwords, ss \in SaltSeeds, ns \in NonceSeeds, t \in Times :
         LET e == Encrypt(mk, [Name |-> name, Password |-> pw, CreatedAt |-> t], ss, ns) IN
         /\ FileExists(files, name)
         /\ IF e.err # "nil"
            THEN Return(p, [NoRet EXCEPT !.op = "UpdateSecret", !.name = name,
                                         !.err = e.err, !.enc = TRUE])
            ELSE EnterSave(p, "UpdateSecret", name, pw, e.data)
    /\ UNCHANGED <<files, mk, stored, cx>>

\* a call of MSKService.GetSecret
GetSecretCall(p) ==
    /\ call[p].op = "idle"
    /\ \E name \in Names :
         LET g == GetSecret(files, mk, name)
             path == getFilePath(name)
         IN
         Return(p, [NoRet EXCEPT !.op = "GetSecret", !.name = name,
                                 !.err = g.err, !.out = g.out,
                                 !.denied = IF g.err = "ErrDecryption" THEN path
                                            ELSE ret[p].denied])
    /\ UNCHANGED <<files, mk, stored, cx>>

\* a call of MSKService.DeleteSecret
DeleteSecretCall(p) ==
    /\ call[p].op = "idle"
    /\ \E name \in Names :
         LET d == DeleteSecret(files, name) IN
         /\ files' = d.fs
         /\ stored' = IF d.err = "nil" THEN RemoveEntry(stored, getFilePath(name))
                      ELSE stored
         /\ Return(p, [NoRet EXCEPT !.op = "DeleteSecret", !.name = name, !.err = d.err])
    /\ UNCHANGED <<mk, cx>>

\* a call of Store.DeleteFile
DeleteFileCall(p) ==
    /\ call[p].op = "idle"
    /\ \E name \in Names :
         LET d == DeleteFile(files, name) IN
         /\ files' = d.fs
         /\ stored' = IF d.err = "nil" THEN RemoveEntry(stored, getFilePath(name))
                      ELSE stored
         /\ Return(p, [NoRet EXCEPT !.op = "DeleteFile", !.name = name, !.err = d.err])
    /\ UNCHANGED <<mk, cx>>

\* a call of MSKService.ListSecrets
ListSecretsCall(p) ==
    /\ call[p].op = "idle"
    /\ LET l == ListSecrets(files) IN
       Return(p, [NoRet EXCEPT !.op = "ListSecrets", !.err = l.err, !.names = l.names])
    /\ UNCHANGED <<files, mk, stored, cx>>

\* a call of MSKService.ConfigMK
ConfigMKCall(p) ==
    /\ AllIdle
    /\ \E bytes \in MKs : mk' = ConfigMK(bytes)
    /\ Return(p, [NoRet EXCEPT !.op = "ConfigMK", !.denied = ret[p].denied])
    /\ UNCHANGED <<files, stored, cx>>

\* a call of ArgonCrypt.DestroyMK
DestroyMKCall(p) ==
    /\ AllIdle
    /\ mk' = DestroyMK
    /\ Return(p, [NoRet EXCEPT !.op = "DestroyMK"])
    /\ UNCHANGED <<files, stored, cx>>

(***************************************************************************)
(* The vault as a state machine                                            *)
(***************************************************************************)
NoOut == [err |-> "none", secret |-> EmptySecret, kdf |-> FALSE]

CxIdle == [stage |-> "idle", mk |-> NoKey, secret |-> EmptySecret, buf |-> <<>>,
           kind |-> "none", dmk |-> NoKey, out |-> NoOut]

Init ==
    /\ files = << >>
    /\ mk = NoKey
    /\ call = [p \in Procs |-> Idle]
    /\ ret = [p \in Procs |-> NoRet]
    /\ stored = << >>
    /\ cx = CxIdle

SaveStep(p) ==
    \/ SaveOpen(p) \/ SaveOpenFail(p)
    \/ SaveWrite(p) \/ SaveWriteFail(p)
    \/ SaveSync(p) \/ SaveSyncFail(p)
    \/ SaveClose(p) \/ SaveCloseFail(p)
    \/ SaveRename(p) \/ SaveRenameFail(p)
    \/ SaveDirSync(p) \/ SaveDirSyncFail(p)
    \/ SaveReturn(p)

Next ==
    \E p \in Procs :
         \/ ConfigMKCall(p) \/ DestroyMKCall(p)
         \/ AddSecretExists(p) \/ AddSecretEncrypt(p)
         \/ UpdateSecretMissing(p) \/ UpdateSecretEncrypt(p)
         \/ GetSecretCall(p) \/ DeleteSecretCall(p) \/ DeleteFileCall(p)
         \/ ListSecretsCall(p)
         \/ SaveStep(p)

Spec == Init /\ [][Next]_vars

(***************************************************************************)
(* The codecs and the cipher as functions: one run is Encrypt, then an     *)
(* optional change of the envelope, then Decrypt                           *)
(***************************************************************************)
\* names "", "a" and "Ab"
CxNames == { <<>>, <<97>>, <<65, 98>> }
CxPasswords == UNION { [1..n -> {0, 255}] : n \in 0..MaxPwLen }
CxSecrets == [Name : CxNames, Password : CxPasswords, CreatedAt : {ZeroTime} \cup Times]
CxSeeds == {0, 250}
\* the keys a run decrypts with: every master key, or none configured
CxKeys == { ConfigMK(k) : k \in MKs } \cup { NoKey }

\* the values one byte is changed to
TamperValues(b) == { (b + 1) % 256, 255 - b, 0 } \ {b}

\* envelopes damaged in the header: cut short, wrong magic, wrong version
RawBuffers(env) ==
    { SubSeq(env, 1, k) : k \in {0, 2, 3, 4, MSK_HEADER_SIZE - 1, MSK_HEADER_SIZE} }
    \cup { [env EXCEPT ![i] = (env[i] + 1) % 256] : i \in 1..MSK_MAGIC_SIZE }
    \cup { [env EXCEPT ![MSK_MAGIC_SIZE + 1] = v] : v \in {0, 2, 99} }
    \cup { [SubSeq(env, 1, MSK_HEADER_SIZE - 1) EXCEPT ![MSK_MAGIC_SIZE + 1] = 2] }

InitCodec ==
    /\ files = << >>
    /\ mk = NoKey
    /\ call = [p \in Procs |-> Idle]
    /\ ret = [p \in Procs |-> NoRet]
    /\ stored = << >>
    /\ cx \in { [CxIdle EXCEPT !.stage = "input", !.mk = ConfigMK(k), !.secret = sec] :
                  k \in MKs, sec \in CxSecrets }

\* ArgonCrypt.Encrypt applied to the inputs of the run
CxEncrypt ==
    /\ cx.stage = "input"
    /\ \E ss \in CxSeeds, ns \in CxSeeds :
         LET e == Encrypt(cx.mk, cx.secret, ss, ns) IN
         /\ e.err = "nil"
         /\ cx' = [cx EXCEPT !.stage = "sealed", !.buf = e.data, !.kind = "sealed"]
    /\ UNCHANGED <<files, mk, call, ret, stored>>

\* one byte of the ciphertext region is changed
CxTamper ==
    /\ cx.stage = "sealed"
    /\ \E i \in (MSK_HEADER_SIZE + 1)..Len(cx.buf) :
         \E v \in TamperValues(cx.buf[i]) :
            cx' = [cx EXCEPT !.stage = "changed", !.buf = [cx.buf EXCEPT ![i] = v],
                             !.kind = "tampered"]
    /\ UNCHANGED <<files, mk, call, ret, stored>>

\* the header of the envelope is damaged
CxCorrupt ==
    /\ cx.stage = "sealed"
    /\ \E b \in RawBuffers(cx.buf) :
         cx' = [cx EXCEPT !.stage = "changed", !.buf = b, !.kind = "raw"]
    /\ UNCHANGED <<files, mk, call, ret, stored>>

\* ArgonCrypt.Decrypt applied to the buffer of the run
CxDecrypt ==
    /\ cx.stage \in {"sealed", "changed"}
    /\ \E k \in CxKeys :
         cx' = [cx EXCEPT !.stage = "opened", !.dmk = k, !.out = Decrypt(k, cx.buf)]
    /\ UNCHANGED <<files, mk, call, ret, stored>>

NextCodec == CxEncrypt \/ CxTamper \/ CxCorrupt \/ CxDecrypt

SpecCodec == InitCodec /\ [][NextCodec]_vars

(***************************************************************************)
(* Properties                                                              *)
(***************************************************************************)
InSeq(x, sq) == \E i \in 1..Len(sq) : sq[i] = x

\* no temporary file is left in the vault directory
NoTmpLeft == \A f \in DOMAIN files : ~Contains(f, DotTmp)

C2_RoundTripAllFields ==
    (cx.stage = "opened" /\ cx.kind = "sealed" /\ cx.dmk = cx.mk) =>
        /\ cx.out.err = "nil"
        /\ cx.out.secret = cx.secret

\* C3: a stored file decrypts only under the master key it was encrypted
\* with: GetSecret under another configured key returns ErrDecryption and no
\* password; under the original key it returns the original password, also
\* after refused attempts and reconfigurations.
C3_WrongKeyRejected ==
    /\ \A n \in Names :
         LET path == getFilePath(n)
             g == GetSecret(files, mk, n)
         IN (path \in DOMAIN stored /\ ~mk.nil) =>
               IF mk.bytes = stored[path].mk
               THEN g = [err |-> "nil", out |-> stored[path].pw]
               ELSE g = [err |-> "ErrDecryption", out |-> <<>>]
    /\ \A p \in Procs :
         LET path == getFilePath(ret[p].name) IN
         (ret[p].op = "GetSecret" /\ path \in DOMAIN stored /\ ~mk.nil) =>
               IF mk.bytes = stored[path].mk
               THEN ret[p].err = "nil" /\ ret[p].out = stored[path].pw
               ELSE ret[p].err = "ErrDecryption" /\ ret[p].out = <<>>

\* C3 witness: a GetSecret succeeded on a file a GetSecret was refused on
\* before the master key was configured again
C3_Witness ==
    \E p \in Procs :
        /\ ret[p].op = "GetSecret" /\ ret[p].err = "nil"
        /\ ret[p].denied = getFilePath(ret[p].name)

\* C4: an envelope with one changed byte in the ciphertext region (offset 32
\* and beyond) is refused by Decrypt under the correct key with
\* ErrDecryption, and no Secret is returned.
C4_TamperDetected ==
    (cx.stage = "opened" /\ cx.kind = "tampered" /\ cx.dmk = cx.mk) =>
        /\ cx.out.err = "ErrDecryption"
        /\ cx.out.secret = EmptySecret

\* C4 witness: a tampered envelope went through Decrypt under the right key
C4_Witness ==
    /\ cx.stage = "opened" /\ cx.kind = "tampered" /\ cx.dmk = cx.mk
    /\ cx.buf[Len(cx.buf)] = 0

\* C5: a buffer shorter than 32 bytes or without the magic "MSK" decodes to
\* ErrCorruptedFile; one of at least 32 bytes with the magic and a version
\* other than 1 to ErrUnsupportedFileVersion; Decrypt returns these errors
\* without deriving a key, with or without a configured master key.
C5_FormatErrorsFirst ==
    cx.stage = "opened" =>
      LET b == cx.buf IN
      /\ (Len(b) < MSK_HEADER_SIZE \/ SubSeq(b, 1, MSK_MAGIC_SIZE) # MSK_MAGIC_VALUE) =>
            /\ UnmarshalFile(b).err = "ErrCorruptedFile"
            /\ cx.out.err = "ErrCorruptedFile"
            /\ ~cx.out.kdf
      /\ (/\ Len(b) >= MSK_HEADER_SIZE
          /\ SubSeq(b, 1, MSK_MAGIC_SIZE) = MSK_MAGIC_VALUE
          /\ b[MSK_MAGIC_SIZE + 1] # MSK_FILE_VERSION) =>
            /\ UnmarshalFile(b).err = "ErrUnsupportedFileVersion"
            /\ cx.out.err = "ErrUnsupportedFileVersion"
            /\ ~cx.out.kdf

\* C5 witness: a wrong version byte met Decrypt with no master key configured
C5_Witness ==
    /\ cx.stage = "opened" /\ cx.kind = "raw" /\ cx.dmk = NoKey
    /\ Len(cx.buf) >= MSK_HEADER_SIZE
    /\ cx.out.err = "ErrUnsupportedFileVersion"

\* the regular file SaveFile is about to replace, or has replaced
NewFile(c) == [exists |-> TRUE, data |-> c.data]

\* the name a service call that starts in this step is made with
StartedName(p) == IF call'[p].op = "idle" THEN ret'[p].name ELSE call'[p].name

\* C6: when SaveFile returns after a failure of the open, write, sync, close
\* or rename of the temporary file, it returns an error, the real name holds
\* exactly what it held when the call began (the previous content, or no
\* file), and no .tmp file is left in the vault directory.
C6_FailedSaveLeavesVault ==
    \A p \in Procs :
      LET r == ret[p] IN
      (r.op \in {"AddSecret", "UpdateSecret"}
         /\ r.stage \in {"open", "write", "sync", "close", "rename"}) =>
            /\ r.err # "nil"
            /\ Snapshot(files, getFilePath(r.name)) = r.prev
            /\ NoTmpLeft

\* C6 witness: a save over an existing file has failed at the rename
C6_Witness ==
    \E p \in Procs :
        /\ ret[p].stage = "rename" /\ ret[p].err # "nil"
        /\ ret[p].prev.exists

\* C7: at every step of a SaveFile call the real name holds what it held
\* when the call began until the rename, and the complete new envelope from
\* the rename on; the rename is reached only with the temporary file fully
\* written and synced; a failed directory sync leaves the result nil.
C7_NoPartialWrite ==
    \A p \in Procs :
      LET c == call[p]
          here == Snapshot(files, getFilePath(c.name))
      IN
      /\ (c.pc \in {"open", "write", "sync", "close", "rename"}) => here = c.prev
      /\ (c.pc = "defer" /\ c.err # "nil") => here = c.prev
      /\ (c.pc = "dirsync" \/ (c.pc = "defer" /\ c.err = "nil")) =>
            /\ here = NewFile(c)
            /\ c.full /\ c.synced
      /\ (c.pc = "rename") =>
            /\ c.full /\ c.synced
            /\ Snapshot(files, tmpPathOf(c.name)) = NewFile(c)
      /\ (c.stage = "dirsync") => c.err = "nil"
      /\ (ret[p].stage = "dirsync") =>
            /\ ret[p].err = "nil"
            /\ Snapshot(files, getFilePath(ret[p].name)).exists

\* C7 witness: the directory sync has failed in a save that replaced a file
C7_Witness ==
    \E p \in Procs :
        /\ call[p].pc = "defer" /\ call[p].stage = "dirsync"
        /\ call[p].prev.exists
        /\ call[p].prev # NewFile(call[p])

\* C8: AddSecret called for a name whose file exists, whatever the case of
\* the name, returns ErrSecretExists at once, encrypts nothing, writes
\* nothing and leaves the vault as it is, so the stored file still decrypts
\* to the password it was saved with.
C8_AddNeverOverwrites ==
    /\ [](\A p \in Procs :
            LET r == ret[p]
                path == getFilePath(r.name)
            IN (r.op = "AddSecret" /\ r.err = "ErrSecretExists") =>
                  /\ ~r.enc /\ ~r.wrote
                  /\ path \in DOMAIN files /\ path \in DOMAIN stored
                  /\ GetSecret(files, ConfigMK(stored[path].mk), r.name)
                        = [err |-> "nil", out |-> stored[path].pw])
    /\ [][\A p \in Procs :
            (/\ call[p].op = "idle"
             /\ call'[p].op = "AddSecret" \/ ret'[p].op = "AddSecret"
             /\ getFilePath(StartedName(p)) \in DOMAIN files) =>
                /\ call'[p].op = "idle"
                /\ ret'[p].err = "ErrSecretExists"
                /\ files' = files /\ stored' = stored]_vars

\* C8 witness: AddSecret was refused for a name that differs in case from
\* the name of the stored file
C8_Witness ==
    \E p \in Procs :
        /\ ret[p].op = "AddSecret" /\ ret[p].err = "ErrSecretExists"
        /\ ret[p].name # ToLower(ret[p].name)

\* C9: a delete of a name whose file exists returns nil, removes exactly
\* that file and leaves every other file as it is; a delete of a name with
\* no file returns the not-found error and leaves the vault as it is.
C9_DeleteSemantics ==
    [][\A p \in Procs :
         LET r == ret'[p]
             path == getFilePath(r.name)
         IN
         (r.op \in {"DeleteFile", "DeleteSecret"} /\ r # ret[p]) =>
            IF path \in DOMAIN files
            THEN /\ r.err = "nil"
                 /\ DOMAIN files' = DOMAIN files \ {path}
                 /\ \A f \in DOMAIN files' : files'[f] = files[f]
            ELSE /\ r.err = IF r.op = "DeleteFile" THEN "ErrNotFound"
                            ELSE "ErrSecretNotFound"
                 /\ files' = files]_vars

\* C9 witness: a file was deleted and another file is still in the vault
C9_Witness ==
    \E p \in Procs :
        /\ ret[p].op = "DeleteFile" /\ ret[p].err = "nil"
        /\ DOMAIN files # {}

\* C10: after UpdateSecret(n, p2) returns nil on an existing secret,
\* GetSecret(n) returns p2, and a GetSecret that succeeds returns the
\* password of the last completed save; UpdateSecret on a name with no file
\* returns ErrSecretNotFound, encrypts nothing and creates no file.
C10_UpdateSemantics ==
    /\ [](\A p \in Procs :
            LET r == ret[p]
                path == getFilePath(r.name)
            IN
            /\ (r.op = "UpdateSecret" /\ r.err = "nil") =>
                  /\ r.prev.exists
                  /\ GetSecret(files, mk, r.name) = [err |-> "nil", out |-> r.pw]
            /\ (r.op = "UpdateSecret" /\ r.err = "ErrSecretNotFound") =>
                  /\ ~r.enc /\ ~r.wrote
                  /\ path \notin DOMAIN files
            /\ (r.op = "GetSecret" /\ r.err = "nil") =>
                  /\ path \in DOMAIN stored
                  /\ r.out = stored[path].pw)
    /\ [][\A p \in Procs :
            (/\ call[p].op = "idle"
             /\ call'[p].op = "UpdateSecret" \/ ret'[p].op = "UpdateSecret"
             /\ getFilePath(StartedName(p)) \notin DOMAIN files) =>
                /\ call'[p].op = "idle"
                /\ ret'[p].err = "ErrSecretNotFound"
                /\ files' = files]_vars

\* C10 witness: an update has replaced a secret whose password was another
C10_Witness ==
    \E p \in Procs :
        /\ ret[p].op = "UpdateSecret" /\ ret[p].err = "nil"
        /\ ret[p].prev.exists
        /\ Decrypt(mk, ret[p].prev.data).err = "nil"
        /\ Decrypt(mk, ret[p].prev.data).secret.Password # ret[p].pw

\* names equal up to letter case
SameName(m, n) == ToLower(m) = ToLower(n)

\* process p completes the rename of a save of name n in this step
RenamesNow(p, n) ==
    call[p].pc = "rename" /\ call'[p].pc = "dirsync" /\ call[p].name = n

\* process p returns nil from a delete of name n in this step
DeletesNow(p, n) ==
    /\ call[p].op = "idle" /\ ret'[p] # ret[p]
    /\ ret'[p].op \in {"DeleteFile", "DeleteSecret"}
    /\ ret'[p].name = n /\ ret'[p].err = "nil"

\* C11: once the rename of a save of name n is done, FileExists(m) holds and
\* GetFile(m) returns exactly the bytes saved for every m equal to n up to
\* letter case; a delete of n leaves GetFile(m) with ErrNotFound for each
\* such m; and what GetFile(m) returns changes only in a save or a delete of
\* a name equal to m up to letter case.
C11_CaseInsensitive ==
    [][/\ \A p \in Procs, n \in Names :
            RenamesNow(p, n) =>
               \A m \in Names : SameName(m, n) =>
                  /\ FileExists(files', m)
                  /\ GetFile(files', m) = [err |-> "nil", data |-> call[p].data]
       /\ \A p \in Procs, n \in Names :
            DeletesNow(p, n) =>
               \A m \in Names : SameName(m, n) =>
                  /\ ~FileExists(files', m)
                  /\ GetFile(files', m).err = "ErrNotFound"
       /\ \A m \in Names :
            GetFile(files', m) # GetFile(files, m) =>
               \E p \in Procs, n \in Names :
                  SameName(m, n) /\ (RenamesNow(p, n) \/ DeletesNow(p, n))]_vars

\* C11 witness: a save under "A" is read back under "a"
C11_Witness ==
    \E p \in Procs :
        /\ call[p].pc = "dirsync" /\ call[p].name = <<65>>
        /\ GetFile(files, <<97>>) = [err |-> "nil", data |-> call[p].data]
        /\ Len(call[p].data) > MSK_HEADER_SIZE

\* strings.HasSuffix(s, suffix)
HasSuffix(s, suffix) ==
    Len(s) >= Len(suffix) /\ SubSeq(s, Len(s) - Len(suffix) + 1, Len(s)) = suffix

\* strings.TrimSuffix(s, suffix), as the list command prints an entry
TrimSuffix(s, suffix) ==
    IF HasSuffix(s, suffix) THEN SubSeq(s, 1, Len(s) - Len(suffix)) ELSE s

\* the entries of a listing
Entries(sq) == { sq[i] : i \in 1..Len(sq) }

\* the names of the secrets in the vault: one per regular file that ends in
\* .msk, without the suffix
LiveNames(fs) ==
    { TrimSuffix(f, DotMsk) : f \in { g \in DOMAIN fs : ~fs[g].dir /\ HasSuffix(g, DotMsk) } }

\* C12 (as stated, entries read as the list command prints them): at every
\* moment a listing of the vault directory has one entry per regular file
\* whose name ends in .msk and nothing else: the names it shows are the live
\* secret names, and a .tmp file or a name that only contains ".msk" is
\* skipped.
C12_ListIsLiveNames ==
    LET l == ListSecrets(files) IN
    /\ l.err = "nil"
    /\ { TrimSuffix(e, DotMsk) : e \in Entries(l.names) } = LiveNames(files)

(***************************************************************************)
(* internal/format as functions: one run wraps and unwraps an envelope, or *)
(* decodes a damaged one and wraps it again, or encodes and decodes a     *)
(* plaintext record                                                        *)
(***************************************************************************)
\* salts and nonces of the right length and one byte off
FxSalts == { randomBytes(n, seed) : n \in {MSK_SALT_SIZE - 1, MSK_SALT_SIZE, MSK_SALT_SIZE + 1},
                                    seed \in {0, 250} }
FxNonces == { randomBytes(n, 3) : n \in {MSK_NONCE_SIZE - 1, MSK_NONCE_SIZE, MSK_NONCE_SIZE + 1} }
\* ciphertexts: any bytes, the empty string included
FxCts == UNION { [1..n -> {0, 77, 255}] : n \in 0..MaxCtLen }

NoFileOut == [err |-> "none", file |-> <<>>]
NoEnvelope == [err |-> "none", salt |-> <<>>, nonce |-> <<>>, secret |-> <<>>]
NoSecretOut == [err |-> "none", secret |-> EmptySecret]

FxIdle == [stage |-> "input", kind |-> "none", salt |-> <<>>, nonce |-> <<>>, ct |-> <<>>,
           secret |-> EmptySecret, mf |-> NoFileOut, buf |-> <<>>, uf |-> NoEnvelope,
           re |-> NoFileOut, rec |-> <<>>, us |-> NoSecretOut]

InitFormat ==
    /\ files = << >>
    /\ mk = NoKey
    /\ call = [p \in Procs |-> Idle]
    /\ ret = [p \in Procs |-> NoRet]
    /\ stored = << >>
    /\ cx \in { [FxIdle EXCEPT !.kind = "file", !.salt = sa, !.nonce = no, !.ct = ct] :
                  sa \in FxSalts, no \in FxNonces, ct \in FxCts }
              \cup { [FxIdle EXCEPT !.kind = "secret", !.secret = sec] : sec \in CxSecrets }

\* format.MarshalFile applied to the salt, nonce and ciphertext of the run
FxMarshalFile ==
    /\ cx.stage = "input" /\ cx.kind = "file"
    /\ cx' = [cx EXCEPT !.stage = "wrapped", !.mf = MarshalFile(cx.salt, cx.nonce, cx.ct)]
    /\ UNCHANGED <<files, mk, call, ret, stored>>

\* format.UnmarshalFile applied to the envelope MarshalFile returned
FxUnmarshalFile ==
    /\ cx.stage = "wrapped" /\ cx.mf.err = "nil"
    /\ cx' = [cx EXCEPT !.stage = "unwrapped", !.buf = cx.mf.file,
                        !.uf = UnmarshalFile(cx.mf.file)]
    /\ UNCHANGED <<files, mk, call, ret, stored>>

\* another buffer is made of the envelope: cut, damaged in the header,
\* left as it is or extended
FxDamage ==
    /\ cx.stage = "wrapped" /\ cx.mf.err = "nil"
    /\ \E b \in RawBuffers(cx.mf.file) \cup {cx.mf.file, cx.mf.file \o <<0>>} :
         cx' = [cx EXCEPT !.stage = "raw", !.buf = b]
    /\ UNCHANGED <<files, mk, call, ret, stored>>

\* format.UnmarshalFile applied to that buffer, and format.MarshalFile to
\* what it returned
FxRewrap ==
    /\ cx.stage = "raw"
    /\ LET u == UnmarshalFile(cx.buf) IN
       cx' = [cx EXCEPT !.stage = "rewrapped", !.uf = u,
                        !.re = IF u.err = "nil" THEN MarshalFile(u.salt, u.nonce, u.secret)
                               ELSE NoFileOut]
    /\ UNCHANGED <<files, mk, call, ret, stored>>

\* format.MarshalSecret applied to the secret of the run
FxMarshalSecret ==
    /\ cx.stage = "input" /\ cx.kind = "secret"
    /\ cx' = [cx EXCEPT !.stage = "encoded", !.rec = MarshalSecret(cx.secret)]
    /\ UNCHANGED <<files, mk, call, ret, stored>>

\* format.UnmarshalSecret applied to the record MarshalSecret returned
FxUnmarshalSecret ==
    /\ cx.stage = "encoded"
    /\ cx' = [cx EXCEPT !.stage = "decoded", !.us = UnmarshalSecret(cx.rec)]
    /\ UNCHANGED <<files, mk, call, ret, stored>>

NextFormat ==
    \/ FxMarshalFile \/ FxUnmarshalFile \/ FxDamage \/ FxRewrap
    \/ FxMarshalSecret \/ FxUnmarshalSecret

SpecFormat == InitFormat /\ [][NextFormat]_vars

\* C13: MarshalFile fails exactly when the salt is not 16 bytes or the nonce
\* is not 12 bytes, whatever the ciphertext; its output is 32 + len(ct) bytes
\* long and UnmarshalFile of it returns exactly (salt, nonce, ct); and
\* MarshalFile of what UnmarshalFile returns for a buffer it accepts is that
\* buffer byte for byte.
C13_EnvelopeRoundTrip ==
    /\ (cx.kind = "file" /\ cx.stage # "input") =>
          /\ cx.mf.err = "nil" <=>
                (Len(cx.salt) = MSK_SALT_SIZE /\ Len(cx.nonce) = MSK_NONCE_SIZE)
          /\ cx.mf.err = "nil" => Len(cx.mf.file) = 32 + Len(cx.ct)
    /\ cx.stage = "unwrapped" =>
          cx.uf = [err |-> "nil", salt |-> cx.salt, nonce |-> cx.nonce, secret |-> cx.ct]
    /\ (cx.stage = "rewrapped" /\ cx.uf.err = "nil") =>
          cx.re = [err |-> "nil", file |-> cx.buf]

\* C13 witness: a buffer of the bare 32-byte header, cut from a longer
\* envelope, was accepted and wrapped again
C13_Witness ==
    /\ cx.stage = "rewrapped" /\ cx.uf.err = "nil"
    /\ Len(cx.buf) = MSK_HEADER_SIZE /\ cx.ct # <<>>
    /\ cx.uf.secret = <<>>

\* C14 (as stated): UnmarshalSecret of the output of MarshalSecret returns
\* nil and a Secret equal to the encoded one in name, password and
\* created_at.
C14_RecordRoundTrip ==
    cx.stage = "decoded" =>
        /\ cx.us.err = "nil"
        /\ cx.us.secret = cx.secret

(***************************************************************************)
(* ArgonCrypt.mk and the memory around it: the buffer of the caller, and   *)
(* the storage the enclave reads the master key from                       *)
(***************************************************************************)
\* addresses: the caller's slice, and two places an enclave can be stored at
CallerAddr == 1
EnclaveAddrs == {2, 3}
NoAddr == 0

\* wipe of a byte slice: every byte set to zero
Wiped(b) == [i \in 1..Len(b) |-> 0]

\* address of the storage a new enclave gets
FreshAddr(m) == IF m.enclave = 2 THEN 3 ELSE 2

\* ConfigMK keeping the caller's slice as its key storage
ConfigMKMem_Alias(m) == [m EXCEPT !.enclave = CallerAddr]

\* ArgonCrypt.ConfigMK on memory: memguard.NewBufferFromBytes copies the
\* slice into a buffer of its own and wipes the slice, Seal moves the copy
\* into a new enclave, and the assignment drops the enclave held before
ConfigMKMem(m) ==
    LET a == FreshAddr(m) IN
    [m EXCEPT !.cells = (a :> m.cells[CallerAddr])
                        @@ (CallerAddr :> Wiped(m.cells[CallerAddr])),
              !.enclave = a]

\* ArgonCrypt.DestroyMK on memory
DestroyMKMem(m) ==
    [m EXCEPT !.cells = (CallerAddr :> m.cells[CallerAddr]), !.enclave = NoAddr]

\* what a.mk.Open() hands to Encrypt and Decrypt
KeyInUse(m) == IF m.enclave = NoAddr THEN NoKey ELSE ConfigMK(m.cells[m.enclave])

KxSecret == [Name |-> <<97>>, Password |-> <<255>>, CreatedAt |-> ZeroTime]

KxIdle == [mem |-> [cells |-> (CallerAddr :> <<>>), enclave |-> NoAddr],
           given |-> <<>>, last |-> "none", env |-> <<>>, envkey |-> <<>>,
           changed |-> FALSE, replaced |-> FALSE, out |-> NoOut]

InitKey ==
    /\ files = << >>
    /\ mk = NoKey
    /\ call = [p \in Procs |-> Idle]
    /\ ret = [p \in Procs |-> NoRet]
    /\ stored = << >>
    /\ cx = KxIdle

\* the caller writes its own buffer: a master password typed at the prompt,
\* or any later change
KxCallerWrites ==
    /\ \E k \in MKs :
         cx' = [cx EXCEPT !.mem.cells[CallerAddr] = k, !.last = "write",
                          !.changed = (cx.given # <<>>)]
    /\ UNCHANGED <<files, mk, call, ret, stored>>

\* ArgonCrypt.ConfigMK called with the caller's buffer
KxConfigMK ==
    /\ cx.mem.cells[CallerAddr] \in MKs
    /\ mk' = ConfigMK(cx.mem.cells[CallerAddr])
    /\ cx' = [cx EXCEPT !.mem = ConfigMKMem(cx.mem), !.given = cx.mem.cells[CallerAddr],
                        !.last = "ConfigMK", !.changed = FALSE,
                        !.replaced = (cx.given # <<>> /\ cx.given # cx.mem.cells[CallerAddr])]
    /\ UNCHANGED <<files, call, ret, stored>>

\* ArgonCrypt.DestroyMK
KxDestroyMK ==
    /\ mk' = DestroyMK
    /\ cx' = [cx EXCEPT !.mem = DestroyMKMem(cx.mem), !.given = <<>>, !.last = "DestroyMK",
                        !.changed = FALSE, !.replaced = FALSE]
    /\ UNCHANGED <<files, call, ret, stored>>

\* ArgonCrypt.Encrypt with the key the enclave opens to
KxEncrypt ==
    /\ \E ss \in SaltSeeds, ns \in NonceSeeds :
         LET e == Encrypt(KeyInUse(cx.mem), KxSecret, ss, ns) IN
         cx' = [cx EXCEPT !.last = "Encrypt",
                          !.env = IF e.err = "nil" THEN e.data ELSE cx.env,
                          !.envkey = IF e.err = "nil" THEN cx.given ELSE cx.envkey,
                          !.out = [NoOut EXCEPT !.err = e.err]]
    /\ UNCHANGED <<files, mk, call, ret, stored>>

\* ArgonCrypt.Decrypt of the last envelope with the key the enclave opens to
KxDecrypt ==
    /\ cx.env # <<>>
    /\ cx' = [cx EXCEPT !.last = "Decrypt", !.out = Decrypt(KeyInUse(cx.mem), cx.env)]
    /\ UNCHANGED <<files, mk, call, ret, stored>>

NextKey == KxCallerWrites \/ KxConfigMK \/ KxDestroyMK \/ KxEncrypt \/ KxDecrypt

SpecKey == InitKey /\ [][NextKey]_vars

ServiceSecrets == [Name : Names, Password : Passwords, CreatedAt : Times]

\* C16: DestroyMK leaves ArgonCrypt as NewArgonCrypt made it, whether a key
\* was held or not, and changes nothing else; in that state Encrypt and
\* Decrypt return an error, so AddSecret returns it and writes no file and
\* GetSecret returns it for a stored secret; with a key configured again
\* Encrypt succeeds.
C16_DestroyIdempotent ==
    /\ [](/\ \A p \in Procs :
               /\ ret[p].op = "DestroyMK" => mk = NoKey
               /\ (ret[p].op = "AddSecret" /\ ret[p].err = "ErrNoMasterKey") =>
                     /\ mk = NoKey /\ ~ret[p].wrote
                     /\ ~FileExists(files, ret[p].name)
          /\ \A sec \in ServiceSecrets, ss \in SaltSeeds, ns \in NonceSeeds :
               Encrypt(mk, sec, ss, ns).err = IF mk = NoKey THEN "ErrNoMasterKey" ELSE "nil"
          /\ mk = NoKey =>
               \A n \in Names :
                  FileExists(files, n) => GetSecret(files, mk, n).err = "ErrNoMasterKey")
    /\ [][\A p \in Procs :
            /\ (ret'[p].op = "DestroyMK" /\ ret'[p] # ret[p]) =>
                  /\ mk' = NoKey
                  /\ mk = NoKey => mk' = mk
                  /\ files' = files /\ stored' = stored
            /\ (/\ call[p].op = "idle" /\ mk = NoKey
                /\ call'[p].op = "AddSecret" \/ ret'[p].op = "AddSecret"
                /\ getFilePath(StartedName(p)) \notin DOMAIN files) =>
                  /\ call'[p].op = "idle"
                  /\ ret'[p].err = "ErrNoMasterKey"
                  /\ files' = files]_vars

\* C16 witness: AddSecret fails for want of a key in a vault that holds
\* secrets saved before the key was destroyed
C16_Witness ==
    \E p \in Procs :
        /\ ret[p].op = "AddSecret" /\ ret[p].err = "ErrNoMasterKey"
        /\ mk = NoKey /\ DOMAIN files # {}

(***************************************************************************)
(* ArgonCrypt.Encrypt over an entropy source read in sequence: every read  *)
(* of the source yields bytes no read before has yielded                   *)
(***************************************************************************)
FrSecrets == { [Name |-> <<97>>, Password |-> <<255>>, CreatedAt |-> ZeroTime],
               [Name |-> <<97>>, Password |-> <<>>, CreatedAt |-> ZeroTime],
               [Name |-> <<98>>, Password |-> <<255>>, CreatedAt |-> ZeroTime] }

FrIdle == [reads |-> 0, envs |-> <<>>, ins |-> <<>>]

InitFresh ==
    /\ files = << >>
    /\ mk \in { ConfigMK(k) : k \in MKs }
    /\ call = [p \in Procs |-> Idle]
    /\ ret = [p \in Procs |-> NoRet]
    /\ stored = << >>
    /\ cx = FrIdle

\* ArgonCrypt.Encrypt: two reads of the entropy source, for salt and nonce
FrEncrypt ==
    /\ Len(cx.envs) < MaxEncrypts
    /\ \E sec \in FrSecrets :
         LET e == Encrypt(mk, sec, cx.reads, cx.reads + 1) IN
         /\ e.err = "nil"
         /\ cx' = [cx EXCEPT !.reads = cx.reads + 2,
                             !.envs = Append(cx.envs, e.data),
                             !.ins = Append(cx.ins, [mk |-> mk.bytes, secret |-> sec])]
    /\ UNCHANGED <<files, mk, call, ret, stored>>

\* ArgonCrypt.ConfigMK between two Encrypt calls
FrConfigMK ==
    /\ Len(cx.envs) < MaxEncrypts
    /\ \E k \in MKs : mk' = ConfigMK(k)
    /\ mk' # mk
    /\ UNCHANGED <<files, call, ret, stored, cx>>

NextFresh == FrEncrypt \/ FrConfigMK

SpecFresh == InitFresh /\ [][NextFresh]_vars

\* C17: the salt and the nonce of every envelope are the bytes read from the
\* entropy source in the Encrypt call that made it; no two envelopes made
\* share a salt or a nonce, whatever secrets and keys they were made of, and
\* so no two of them are equal.
C17_FreshSaltNonce ==
    /\ \A i \in 1..Len(cx.envs) :
         LET u == UnmarshalFile(cx.envs[i]) IN
         /\ u.err = "nil"
         /\ u.salt = randomBytes(MSK_SALT_SIZE, 2 * (i - 1))
         /\ u.nonce = randomBytes(MSK_NONCE_SIZE, 2 * (i - 1) + 1)
    /\ \A i, j \in 1..Len(cx.envs) :
         i # j =>
           /\ UnmarshalFile(cx.envs[i]).salt # UnmarshalFile(cx.envs[j]).salt
           /\ UnmarshalFile(cx.envs[i]).nonce # UnmarshalFile(cx.envs[j]).nonce
           /\ cx.envs[i] # cx.envs[j]

\* C17 witness: one secret was encrypted twice under one key
C17_Witness ==
    /\ Len(cx.envs) >= 2
    /\ cx.ins[1] = cx.ins[2]
    /\ cx.envs[1] # cx.envs[2]

(***************************************************************************)
(* internal/config: the encrypted config file                              *)
(***************************************************************************)
\* "msk-config"
MSK_CONFIG_NAME == <<109, 115, 107, 45, 99, 111, 110, 102, 105, 103>>

\* vault paths typed at the prompt: "v" and "w"
VaultPaths == { <<118>>, <<119>> }

\* the config directory: the config file and its temporary file
NoConfig == [file |-> NoFile, tmp |-> NoFile]

\* what failed in a config.Save call, if anything
SaveOutcomes == {"ok", "write", "rename"}

\* config.Load accepting any record that decrypts
ConfigLoad_AnyName(cfs, amk) ==
    IF ~cfs.file.exists THEN [err |-> "ErrConfigNotFound", path |-> <<>>]
    ELSE
      LET d == Decrypt(amk, cfs.file.data) IN
      IF d.err # "nil" THEN [err |-> "ErrInvalidConfig", path |-> <<>>]
      ELSE [err |-> "nil", path |-> d.secret.Password]

\* config.Load
ConfigLoad(cfs, amk) ==
    IF ~cfs.file.exists THEN [err |-> "ErrConfigNotFound", path |-> <<>>]
    ELSE
      LET d == Decrypt(amk, cfs.file.data) IN
      IF d.err # "nil" THEN [err |-> "ErrInvalidConfig", path |-> <<>>]
      ELSE IF d.secret.Name # MSK_CONFIG_NAME THEN [err |-> "ErrInvalidConfig", path |-> <<>>]
      ELSE [err |-> "nil", path |-> d.secret.Password]

\* config.Save: Encrypt, os.WriteFile of the temporary file, os.Rename
ConfigSave(cfs, amk, vaultPath, ss, ns, outcome) ==
    LET e == Encrypt(amk, [Name |-> MSK_CONFIG_NAME, Password |-> vaultPath,
                           CreatedAt |-> ZeroTime], ss, ns)
    IN
    IF e.err # "nil" THEN [err |-> e.err, cfs |-> cfs]
    ELSE IF outcome = "write"
      THEN [err |-> "ErrIO", cfs |-> [cfs EXCEPT !.tmp = [exists |-> TRUE, data |-> <<>>]]]
    ELSE IF outcome = "rename"
      THEN [err |-> "ErrIO", cfs |-> [cfs EXCEPT !.tmp = NoFile]]
    ELSE [err |-> "nil",
          cfs |-> [file |-> [exists |-> TRUE, data |-> e.data], tmp |-> NoFile]]

(***************************************************************************)
(* cmd/msk and internal/cli: one run of the msk command after another      *)
(***************************************************************************)
CliCommands == {"config", "get", "add"}

\* config files a run can find: none, or one saved earlier
CliConfigs ==
    {NoConfig} \cup
    { ConfigSave(NoConfig, ConfigMK(k), v, 0, 3, "ok").cfs : k \in MKs, v \in VaultPaths }

\* pc: where the run is; hadcfg: a config file existed when the run began;
\* clean: no prompt was aborted and no system call failed in the run;
\* configs, uses, destroys, purges: calls of ConfigMK, of Encrypt/Decrypt,
\* of DestroyMK and of memguard.Purge in the run; saves: calls of config.Save
CliIdle == [pc |-> "shell", cmd |-> "none", cfs |-> NoConfig, hadcfg |-> FALSE,
            typed |-> <<>>, vault |-> <<>>, svc |-> FALSE, err |-> "nil", clean |-> TRUE,
            configs |-> 0, uses |-> 0, destroys |-> 0, purges |-> 0, saves |-> 0,
            code |-> 0]

InitCli ==
    /\ files = << >>
    /\ mk = NoKey
    /\ call = [p \in Procs |-> Idle]
    /\ ret = [p \in Procs |-> NoRet]
    /\ stored = << >>
    /\ cx \in { [CliIdle EXCEPT !.cfs = c] : c \in CliConfigs }

CliKeep == UNCHANGED <<files, call, ret, stored>>

\* the PersistentPreRunE of the root command returns err: cobra returns it
\* from Execute without running RunE or any post-run hook
CliAbort(c, e) == [c EXCEPT !.pc = "failed", !.err = e]

\* main: a command is started; NewArgonCrypt holds no key
CliStart ==
    /\ cx.pc \in {"shell", "exited"}
    /\ \E cmd \in CliCommands :
         cx' = [CliIdle EXCEPT !.pc = "prompt", !.cmd = cmd, !.cfs = cx.cfs,
                               !.hadcfg = cx.cfs.file.exists]
    /\ mk' = NoKey
    /\ CliKeep

\* root PersistentPreRunE: PromptMasterPassword(false) returns a password
CliPrompt ==
    /\ cx.pc = "prompt"
    /\ \E k \in MKs : cx' = [cx EXCEPT !.pc = "configmk", !.typed = k]
    /\ UNCHANGED mk
    /\ CliKeep

\* PromptMasterPassword(false) returns an error
CliPromptFail ==
    /\ cx.pc = "prompt"
    /\ cx' = [CliAbort(cx, "ErrPrompt") EXCEPT !.clean = FALSE]
    /\ UNCHANGED mk
    /\ CliKeep

\* enc.ConfigMK(mk)
CliConfigMK ==
    /\ cx.pc = "configmk"
    /\ mk' = ConfigMK(cx.typed)
    /\ cx' = [cx EXCEPT !.pc = "load", !.configs = cx.configs + 1]
    /\ CliKeep

\* config.Load(enc); on an error enc.DestroyMK() and the error is returned
CliLoad ==
    /\ cx.pc = "load"
    /\ LET l == ConfigLoad(cx.cfs, mk)
           used == IF cx.cfs.file.exists THEN 1 ELSE 0
       IN
       IF l.err # "nil"
       THEN /\ mk' = DestroyMK
            /\ cx' = [CliAbort(cx, l.err) EXCEPT !.destroys = cx.destroys + 1,
                                                 !.uses = cx.uses + used]
       ELSE /\ mk' = mk
            /\ cx' = [cx EXCEPT !.pc = "newstore", !.vault = l.path,
                                !.uses = cx.uses + used]
    /\ CliKeep

\* storage.NewStore(vaultPath) succeeds; holder.Service is set
CliNewStore ==
    /\ cx.pc = "newstore"
    /\ cx' = [cx EXCEPT !.pc = "run", !.svc = TRUE]
    /\ UNCHANGED mk
    /\ CliKeep

\* storage.NewStore fails: enc.DestroyMK() and the error is returned
CliNewStoreFail ==
    /\ cx.pc = "newstore"
    /\ mk' = DestroyMK
    /\ cx' = [CliAbort(cx, "ErrIO") EXCEPT !.destroys = cx.destroys + 1, !.clean = FALSE]
    /\ CliKeep

\* RunE of get or add: the service call succeeds
CliBody ==
    /\ cx.pc = "run" /\ cx.cmd # "config"
    /\ cx' = [cx EXCEPT !.pc = "post", !.uses = cx.uses + 1]
    /\ UNCHANGED mk
    /\ CliKeep

\* RunE of get or add returns an error, before or in the service call:
\* cobra returns it from Execute without running the post-run hooks
CliBodyFail ==
    /\ cx.pc = "run" /\ cx.cmd # "config"
    /\ \E used \in {0, 1} :
         cx' = [cx EXCEPT !.pc = "failed", !.err = "ErrCommand", !.uses = cx.uses + used]
    /\ UNCHANGED mk
    /\ CliKeep

\* RunE of config, the config file exists and the answer is not yes
CliConfigKeep ==
    /\ cx.pc = "run" /\ cx.cmd = "config"
    /\ cx.cfs.file.exists
    /\ cx' = [cx EXCEPT !.pc = "post"]
    /\ UNCHANGED mk
    /\ CliKeep

\* RunE of config: vault path read, directory made,
\* PromptMasterPassword(true) returns a confirmed password
CliConfigPrompt ==
    /\ cx.pc = "run" /\ cx.cmd = "config"
    /\ \E v \in VaultPaths, k \in MKs :
         cx' = [cx EXCEPT !.pc = "reconfigmk", !.vault = v, !.typed = k]
    /\ UNCHANGED mk
    /\ CliKeep

\* RunE of config returns an error before enc.ConfigMK
CliConfigPromptFail ==
    /\ cx.pc = "run" /\ cx.cmd = "config"
    /\ cx' = [cx EXCEPT !.pc = "failed", !.err = "ErrPrompt", !.clean = FALSE]
    /\ UNCHANGED mk
    /\ CliKeep

\* RunE of config: enc.ConfigMK(mk), then config.Save(enc, vaultPath)
CliConfigSave ==
    /\ cx.pc = "reconfigmk"
    /\ mk' = ConfigMK(cx.typed)
    /\ \E o \in SaveOutcomes :
         LET sv == ConfigSave(cx.cfs, mk', cx.vault, 0, 3, o) IN
         cx' = [cx EXCEPT !.pc = IF sv.err = "nil" THEN "post" ELSE "failed",
                          !.err = sv.err, !.cfs = sv.cfs,
                          !.clean = cx.clean /\ o = "ok",
                          !.configs = cx.configs + 1, !.uses = cx.uses + 1,
                          !.saves = cx.saves + 1]
    /\ CliKeep

\* the PersistentPostRunE that applies: enc.DestroyMK() for config,
\* holder.Service.DestroyMK() otherwise; then os.Exit(0)
CliPost ==
    /\ cx.pc = "post"
    /\ mk' = DestroyMK
    /\ cx' = [cx EXCEPT !.pc = "exited", !.destroys = cx.destroys + 1, !.code = 0]
    /\ CliKeep

\* main after Execute returned an error: memguard.Purge(), os.Exit(1)
CliExitError ==
    /\ cx.pc = "failed"
    /\ cx' = [cx EXCEPT !.pc = "exited", !.purges = cx.purges + 1, !.code = 1]
    /\ UNCHANGED mk
    /\ CliKeep

NextCli ==
    \/ CliStart \/ CliPrompt \/ CliPromptFail \/ CliConfigMK \/ CliLoad
    \/ CliNewStore \/ CliNewStoreFail \/ CliBody \/ CliBodyFail
    \/ CliConfigKeep \/ CliConfigPrompt \/ CliConfigPromptFail \/ CliConfigSave
    \/ CliPost \/ CliExitError

SpecCli == InitCli /\ [][NextCli]_vars

\* C18 (as stated): a run of the config command that began with no config
\* file, in which every prompt was answered and no system call failed, has
\* called config.Save and exits with status 0 and the config file stored.
C18_FirstInit ==
    (cx.pc = "exited" /\ cx.cmd = "config" /\ ~cx.hadcfg /\ cx.clean) =>
        /\ cx.saves > 0
        /\ cx.code = 0
        /\ cx.cfs.file.exists

\* C20 (as stated): when a run of a command has exited, with success or
\* with an error at any stage, a master key that was configured in the run
\* has been destroyed by a call of DestroyMK: the service holds no key.
C20_KeyDestroyedAtExit ==
    (cx.pc = "exited" /\ cx.configs > 0) =>
        /\ cx.destroys > 0
        /\ mk = NoKey

(***************************************************************************)
(* internal/config: Save and Load calls on one config directory            *)
(***************************************************************************)
\* a config file that is the envelope of a vault secret, not of a config
\* record: the record is named "a"
ForeignConfig(amk) ==
    Encrypt(amk, [Name |-> <<97>>, Password |-> <<118>>, CreatedAt |-> ZeroTime], 0, 3).data

\* origin: who wrote the config file ("none", "save", "foreign");
\* saved: the key and the vault path of the last config.Save that returned nil;
\* op, out: the last call and the result of the last config.Load
CfIdle == [cfs |-> NoConfig, origin |-> "none",
           saved |-> [key |-> NoKey, path |-> <<>>],
           op |-> "none", out |-> [err |-> "nil", path |-> <<>>]]

InitConfig ==
    /\ files = << >>
    /\ mk = NoKey
    /\ call = [p \in Procs |-> Idle]
    /\ ret = [p \in Procs |-> NoRet]
    /\ stored = << >>
    /\ cx = CfIdle

CfKeep == UNCHANGED <<files, call, ret, stored>>

\* enc.ConfigMK
CfConfigMK ==
    /\ \E k \in MKs : mk' = ConfigMK(k)
    /\ cx' = [cx EXCEPT !.op = "configmk"]
    /\ CfKeep

\* enc.DestroyMK
CfDestroyMK ==
    /\ mk # NoKey
    /\ mk' = DestroyMK
    /\ cx' = [cx EXCEPT !.op = "destroymk"]
    /\ CfKeep

\* config.Save(enc, vaultPath)
CfSave ==
    /\ \E v \in VaultPaths, o \in SaveOutcomes :
         LET sv == ConfigSave(cx.cfs, mk, v, 0, 3, o) IN
         cx' = [cx EXCEPT !.cfs = sv.cfs,
                          !.origin = IF sv.err = "nil" THEN "save" ELSE cx.origin,
                          !.saved = IF sv.err = "nil" THEN [key |-> mk, path |-> v]
                                    ELSE cx.saved,
                          !.op = IF sv.err = "nil" THEN "save" ELSE "savefail"]
    /\ UNCHANGED mk
    /\ CfKeep

\* config.Load(enc)
CfLoad ==
    /\ cx' = [cx EXCEPT !.op = "load", !.out = ConfigLoad(cx.cfs, mk)]
    /\ UNCHANGED mk
    /\ CfKeep

\* the config file is removed by the user
CfRemove ==
    /\ cx.cfs.file.exists
    /\ cx' = [cx EXCEPT !.cfs.file = NoFile, !.origin = "none", !.op = "remove"]
    /\ UNCHANGED mk
    /\ CfKeep

\* a vault file is copied over the config file by the user
CfForeign ==
    /\ \E k \in MKs :
         cx' = [cx EXCEPT !.cfs.file = [exists |-> TRUE, data |-> ForeignConfig(ConfigMK(k))],
                          !.origin = "foreign", !.op = "foreign"]
    /\ UNCHANGED mk
    /\ CfKeep

NextConfig ==
    \/ CfConfigMK \/ CfDestroyMK \/ CfSave \/ CfLoad \/ CfRemove \/ CfForeign

SpecConfig == InitConfig /\ [][NextConfig]_vars

\* C19: after a call of config.Load, the result is ErrConfigNotFound when no
\* config file exists; when the file is the one written by the last
\* successful config.Save, the result is nil with the vault path given to
\* that Save exactly when the configured key is the key of that Save, and
\* ErrInvalidConfig otherwise; when the file is the envelope of a record
\* that is not named "msk-config", the result is ErrInvalidConfig.
C19_LoadOutcome ==
    cx.op = "load" =>
        /\ ~cx.cfs.file.exists => cx.out.err = "ErrConfigNotFound"
        /\ cx.origin = "save" =>
             /\ (cx.out.err = "nil" /\ cx.out.path = cx.saved.path)
                    <=> (mk # NoKey /\ mk = cx.saved.key)
             /\ cx.out.err \in {"nil", "ErrInvalidConfig"}
             /\ cx.out.err = "nil" => cx.out.path = cx.saved.path
        /\ cx.origin = "foreign" => cx.out.err = "ErrInvalidConfig"
        /\ cx.out.err # "nil" => cx.out.path = <<>>

\* the file of the last successful Save was loaded under the key of that
\* Save, after the key had been configured again
C19_Witness ==
    /\ cx.op = "load"
    /\ cx.origin = "save"
    /\ mk # NoKey
    /\ mk = cx.saved.key
    /\ cx.out = [err |-> "nil", path |-> <<119>>]

(***************************************************************************)
(* internal/encryption: a cipher call racing with ConfigMK and DestroyMK   *)
(***************************************************************************)
\* envelopes a racing Decrypt is given: one per master key
RcEnvelopes == { Encrypt(ConfigMK(k), KxSecret, 0, 3).data : k \in MKs }

\* pc: where the cipher call is ("idle", "entered", "checked", "opened",
\* "returned", "panicked"); atcheck: the value of a.mk the presence check
\* read; opened: the key a.mk.Open() unsealed; writes: ConfigMK and
\* DestroyMK calls that ran since the cipher call was entered
RcIdle == [pc |-> "idle", op |-> "none", env |-> <<>>, atcheck |-> NoKey,
           opened |-> NoKey, writes |-> 0, err |-> "none"]

InitRace ==
    /\ files = << >>
    /\ mk = NoKey
    /\ call = [p \in Procs |-> Idle]
    /\ ret = [p \in Procs |-> NoRet]
    /\ stored = << >>
    /\ cx = RcIdle

RcKeep == UNCHANGED <<files, call, ret, stored>>

RcWrote(c) == IF c.pc \in {"entered", "checked", "opened"} /\ c.writes = 0
              THEN [c EXCEPT !.writes = 1] ELSE c

\* another goroutine calls ConfigMK: a.mk is assigned without a lock
RcConfigMK ==
    /\ \E k \in MKs : mk' = ConfigMK(k)
    /\ cx' = RcWrote(cx)
    /\ RcKeep

\* another goroutine calls DestroyMK: a.mk is assigned nil without a lock
RcDestroyMK ==
    /\ mk # NoKey
    /\ mk' = DestroyMK
    /\ cx' = RcWrote(cx)
    /\ RcKeep

\* Encrypt or Decrypt is entered
RcEnter ==
    /\ cx.pc \in {"idle", "returned", "panicked"}
    /\ \/ cx' = [RcIdle EXCEPT !.pc = "entered", !.op = "Encrypt"]
       \/ \E e \in RcEnvelopes :
            cx' = [RcIdle EXCEPT !.pc = "entered", !.op = "Decrypt", !.env = e]
    /\ UNCHANGED mk
    /\ RcKeep

\* if a.mk == nil: the first read of a.mk
RcCheck ==
    /\ cx.pc = "entered"
    /\ cx' = IF mk.nil
             THEN [cx EXCEPT !.pc = "returned", !.err = "ErrNoMasterKey"]
             ELSE [cx EXCEPT !.pc = "checked", !.atcheck = mk]
    /\ UNCHANGED mk
    /\ RcKeep

\* a.mk.Open(): the second read of a.mk; a nil *Enclave is dereferenced
RcOpen ==
    /\ cx.pc = "checked"
    /\ cx' = IF mk.nil
             THEN [cx EXCEPT !.pc = "panicked", !.err = "PanicNilPointer"]
             ELSE [cx EXCEPT !.pc = "opened", !.opened = mk]
    /\ UNCHANGED mk
    /\ RcKeep

\* the rest of Encrypt or Decrypt, on the unsealed copy of the key
RcCipher ==
    /\ cx.pc = "opened"
    /\ cx' = [cx EXCEPT !.pc = "returned",
                        !.err = IF cx.op = "Encrypt"
                                THEN Encrypt(cx.opened, KxSecret, 0, 3).err
                                ELSE Decrypt(cx.opened, cx.env).err]
    /\ UNCHANGED mk
    /\ RcKeep

NextRace == RcConfigMK \/ RcDestroyMK \/ RcEnter \/ RcCheck \/ RcOpen \/ RcCipher

SpecRace == InitRace /\ [][NextRace]_vars

\* C21 (as stated): a cipher call that runs while ConfigMK or DestroyMK is
\* called never uses a key that was cleared between its presence check and
\* its use: it ends by returning, with the result of the old key or of the
\* new key or with the no-key error, and never in a nil dereference.
C21_AtomicKeyAccess ==
    /\ cx.pc # "panicked"
    /\ cx.pc = "returned" => cx.err \in {"nil", "ErrNoMasterKey", "ErrDecryption"}

(***************************************************************************)
(* internal/encryption, internal/wipe: the buffers of one cipher call      *)
(***************************************************************************)
\* wipe.Bytes stopping one byte short
wipeBytes_Short(buf) == [i \in 1..Len(buf) |-> IF i < Len(buf) THEN 0 ELSE buf[i]]

\* wipe.Bytes
wipeBytes(buf) == [i \in 1..Len(buf) |-> 0]

\* the buffers a cipher call allocates: the view lockedBuffer.Bytes() of the
\* unsealed master key, the derived key, the serialized or opened plaintext
WzBuffers == {"view", "key", "plain"}

\* the bytes of a derived key in memory
KeyImage(k) == [i \in 1..k.keyLen |-> 255]

\* records given to Encrypt
WzSecrets == { KxSecret, [Name |-> <<98>>, Password |-> <<>>, CreatedAt |-> ZeroTime] }

\* buffers given to Decrypt: envelopes of either key, one of them damaged
\* in its body, one cut inside its header
WzEnvelopes ==
    LET good == { Encrypt(ConfigMK(k), r, 0, 3).data : k \in MKs, r \in WzSecrets } IN
    good \cup { [e EXCEPT ![Len(e)] = (e[Len(e)] + 1) % 256] : e \in good }
         \cup { SubSeq(e, 1, MSK_MAGIC_SIZE) : e \in good }

\* pc: the next statement of the call; mem: the contents of the buffers
\* allocated so far; defers: the buffers with a deferred wipe or Destroy;
\* dk: the derived key the cipher works with; salt, nonce, ct: the public
\* parts of the envelope
WzIdle == [pc |-> "idle", op |-> "none", env |-> <<>>, secret |-> EmptySecret, salt |-> <<>>, nonce |-> <<>>,
           ct |-> <<>>, mem |-> << >>, defers |-> {}, dk |-> <<>>, err |-> "none",
           out |-> <<>>]

InitWipe ==
    /\ files = << >>
    /\ mk \in {NoKey} \cup { ConfigMK(k) : k \in MKs }
    /\ call = [p \in Procs |-> Idle]
    /\ ret = [p \in Procs |-> NoRet]
    /\ stored = << >>
    /\ cx = WzIdle

WzKeep == UNCHANGED <<files, mk, call, ret, stored>>

\* a return statement: the deferred calls run, then the caller has the result
WzReturn(c, e) ==
    [c EXCEPT !.pc = "returned", !.err = e,
              !.mem = [b \in DOMAIN c.mem |->
                         IF b \notin c.defers THEN c.mem[b]
                         ELSE IF b = "view" THEN Wiped(c.mem[b])
                         ELSE wipeBytes(c.mem[b])],
              !.defers = {}, !.dk = <<>>]

\* a buffer is allocated and its wipe deferred
WzAlloc(c, b, bytes) ==
    [c EXCEPT !.mem = (b :> bytes) @@ c.mem, !.defers = c.defers \cup {b}]

\* Encrypt is entered: randomBytes for the salt, then the presence check
WzEnterEncrypt ==
    /\ cx.pc \in {"idle", "returned"}
    /\ \E r \in WzSecrets :
         LET c == [WzIdle EXCEPT !.op = "Encrypt", !.secret = r,
                                 !.salt = randomBytes(MSK_SALT_SIZE, 0)]
         IN
         \/ cx' = WzReturn(c, "ErrRandom")
         \/ cx' = IF mk.nil THEN WzReturn(c, "ErrNoMasterKey") ELSE [c EXCEPT !.pc = "open"]
    /\ WzKeep

\* Decrypt is entered: format.UnmarshalFile, then the presence check
WzEnterDecrypt ==
    /\ cx.pc \in {"idle", "returned"}
    /\ \E e \in WzEnvelopes :
         LET f == UnmarshalFile(e)
             c == [WzIdle EXCEPT !.op = "Decrypt", !.env = e, !.salt = f.salt,
                                 !.nonce = f.nonce, !.ct = f.secret]
         IN cx' = IF f.err # "nil" THEN WzReturn(c, f.err)
                  ELSE IF mk.nil THEN WzReturn(c, "ErrNoMasterKey")
                  ELSE [c EXCEPT !.pc = "open"]
    /\ WzKeep

\* a.mk.Open() and defer lockedBuffer.Destroy(), or the error of Open
WzOpen ==
    /\ cx.pc = "open"
    /\ \/ cx' = [WzAlloc(cx, "view", mk.bytes) EXCEPT !.pc = "derive"]
       \/ cx' = WzReturn(cx, "ErrOpen")
    /\ WzKeep

\* getArgonDeriveKey and defer wipe.Bytes(key)
WzDerive ==
    /\ cx.pc = "derive"
    /\ LET k == getArgonDeriveKey(cx.mem["view"], cx.salt) IN
       cx' = IF k.err # "nil" THEN WzReturn(cx, k.err)
             ELSE [WzAlloc(cx, "key", KeyImage(k.key)) EXCEPT !.pc = "cipher", !.dk = k.key]
    /\ WzKeep

\* aes.NewCipher and cipher.NewGCM, or the error of either
WzCipher ==
    /\ cx.pc = "cipher"
    /\ \/ cx' = IF aesNewCipher(cx.dk) # "nil" THEN WzReturn(cx, aesNewCipher(cx.dk))
                ELSE [cx EXCEPT !.pc = IF cx.op = "Encrypt" THEN "nonce" ELSE "gcmopen"]
       \/ cx' = WzReturn(cx, "ErrCipher")
    /\ WzKeep

\* Encrypt: randomBytes for the nonce, or its error
WzNonce ==
    /\ cx.pc = "nonce"
    /\ \/ cx' = [cx EXCEPT !.pc = "seal", !.nonce = randomBytes(MSK_NONCE_SIZE, 3)]
       \/ cx' = WzReturn(cx, "ErrRandom")
    /\ WzKeep

\* Encrypt: format.MarshalSecret, gcm.Seal, defer wipe.Bytes(fileBytes)
WzSeal ==
    /\ cx.pc = "seal"
    /\ LET fileBytes == MarshalSecret(cx.secret) IN
       cx' = [WzAlloc(cx, "plain", fileBytes) EXCEPT
                 !.pc = "marshal", !.ct = gcmSeal(cx.dk, cx.nonce, fileBytes)]
    /\ WzKeep

\* Encrypt: return format.MarshalFile(salt, nonce, cipherBytes)
WzMarshalFile ==
    /\ cx.pc = "marshal"
    /\ LET m == MarshalFile(cx.salt, cx.nonce, cx.ct) IN
       cx' = [WzReturn(cx, m.err) EXCEPT !.out = m.file]
    /\ WzKeep

\* Decrypt: gcm.Open and defer wipe.Bytes(fileBytes), or ErrDecryption
WzGcmOpen ==
    /\ cx.pc = "gcmopen"
    /\ LET o == gcmOpen(cx.dk, cx.nonce, cx.ct) IN
       cx' = IF o.err # "nil" THEN WzReturn(cx, "ErrDecryption")
             ELSE [WzAlloc(cx, "plain", o.pt) EXCEPT !.pc = "unmarshal"]
    /\ WzKeep

\* Decrypt: format.UnmarshalSecret copies the fields out, return secret
WzUnmarshalSecret ==
    /\ cx.pc = "unmarshal"
    /\ LET u == UnmarshalSecret(cx.mem["plain"]) IN
       cx' = [WzReturn(cx, u.err) EXCEPT !.out = u.secret.Password]
    /\ WzKeep

NextWipe ==
    \/ WzEnterEncrypt \/ WzEnterDecrypt \/ WzOpen \/ WzDerive \/ WzCipher
    \/ WzNonce \/ WzSeal \/ WzMarshalFile \/ WzGcmOpen \/ WzUnmarshalSecret

SpecWipe == InitWipe /\ [][NextWipe]_vars

IsZeroed(buf) == \A i \in 1..Len(buf) : buf[i] = 0

\* C22: when Encrypt or Decrypt has returned, with nil or with any error,
\* every buffer the call allocated (the view of the unsealed master key, the
\* derived key, the plaintext) holds zeros only, and while the call runs
\* every allocated buffer has its wipe deferred.
C22_ZeroedOnReturn ==
    /\ cx.pc = "returned" =>
          /\ \A b \in DOMAIN cx.mem : IsZeroed(cx.mem[b])
          /\ cx.dk = <<>>
    /\ cx.pc \notin {"idle", "returned"} => cx.defers = DOMAIN cx.mem

\* Decrypt returned ErrDecryption after the key view and the derived key
\* were allocated
C22_Witness ==
    /\ cx.pc = "returned"
    /\ cx.op = "Decrypt"
    /\ cx.err = "ErrDecryption"
    /\ DOMAIN cx.mem = {"view", "key"}
    /\ Len(cx.mem["key"]) = ArgonKeyLen

(***************************************************************************)
(* internal/storage/file: the repository that takes a context              *)
(***************************************************************************)
\* the entry check never seeing the context as done
ctxDone_Never(cancelled) == FALSE

\* select { case <-ctx.Done(): return ctx.Err(); default: }
ctxDone(cancelled) == cancelled

CtOps == {"SaveFile", "GetFile", "DeleteFile", "FileExists", "GetFiles"}

\* domain.EncryptedSecret values given to SaveFile: salt, nonce and data
CtEncrypted ==
    { [Salt |-> randomBytes(MSK_SALT_SIZE, 0), Nonce |-> randomBytes(MSK_NONCE_SIZE, 3),
       Data |-> d] : d \in { <<7>>, <<8, 9>> } }

\* what a repository call returns, and the system calls it made
CtNoOut == [err |-> "none", data |-> <<>>, found |-> FALSE, names |-> <<>>, io |-> 0]

\* the body of SaveFile after the entry check: the temporary file is
\* written, renamed over the path, and the deferred os.Remove finds nothing
CtSaveFile(fs, name, enc) ==
    LET path == getFilePath(name)
        bytes == MSK_MAGIC_VALUE \o <<MSK_FILE_VERSION>> \o enc.Salt \o enc.Nonce \o enc.Data
    IN [out |-> [CtNoOut EXCEPT !.err = "nil", !.io = 1],
        fs |-> PutFile(RemoveEntry(fs, path \o DotTmp), path, bytes)]

\* the body of GetFile after the entry check
CtGetFile(fs, name) ==
    LET path == getFilePath(name) IN
    [out |-> IF path \in DOMAIN fs
             THEN [CtNoOut EXCEPT !.err = "nil", !.data = fs[path].data, !.io = 1]
             ELSE [CtNoOut EXCEPT !.err = "ErrNotFound", !.io = 1],
     fs |-> fs]

\* the body of DeleteFile after the entry check
CtDeleteFile(fs, name) ==
    LET path == getFilePath(name) IN
    IF path \in DOMAIN fs
    THEN [out |-> [CtNoOut EXCEPT !.err = "nil", !.found = TRUE, !.io = 1],
          fs |-> RemoveEntry(fs, path)]
    ELSE [out |-> [CtNoOut EXCEPT !.err = "ErrNotFound", !.io = 1], fs |-> fs]

\* the body of FileExists after the entry check
CtFileExists(fs, name) ==
    [out |-> [CtNoOut EXCEPT !.err = "nil", !.found = StatOk(fs, getFilePath(name)), !.io = 1],
     fs |-> fs]

\* the body of GetFiles after the entry check: os.ReadDir succeeds and
\* nil, nil is returned
CtGetFiles(fs) == [out |-> [CtNoOut EXCEPT !.err = "nil", !.io = 1], fs |-> fs]

CtBody(fs, op, name, enc) ==
    CASE op = "SaveFile" -> CtSaveFile(fs, name, enc)
      [] op = "GetFile" -> CtGetFile(fs, name)
      [] op = "DeleteFile" -> CtDeleteFile(fs, name)
      [] op = "FileExists" -> CtFileExists(fs, name)
      [] OTHER -> CtGetFiles(fs)

\* cancelled: the context is done; pc: "idle", "checked" (past the entry
\* check) or "returned"; atentry: what the entry check saw; before: the
\* vault when the call was entered
CtIdle == [cancelled |-> FALSE, pc |-> "idle", op |-> "none", name |-> <<>>,
           enc |-> [Salt |-> <<>>, Nonce |-> <<>>, Data |-> <<>>],
           atentry |-> FALSE, before |-> << >>, out |-> CtNoOut]

InitCtx ==
    /\ files = << >>
    /\ mk = NoKey
    /\ call = [p \in Procs |-> Idle]
    /\ ret = [p \in Procs |-> NoRet]
    /\ stored = << >>
    /\ cx = CtIdle

CtKeep == UNCHANGED <<mk, call, ret, stored>>

\* the caller cancels the context, at any moment
CtCancel ==
    /\ ~cx.cancelled
    /\ cx' = [cx EXCEPT !.cancelled = TRUE]
    /\ UNCHANGED files
    /\ CtKeep

\* the caller takes a new context for the next call
CtNewContext ==
    /\ cx.cancelled /\ cx.pc \in {"idle", "returned"}
    /\ cx' = [cx EXCEPT !.cancelled = FALSE]
    /\ UNCHANGED files
    /\ CtKeep

\* a repository operation is entered and makes its entry check
CtEnter ==
    /\ cx.pc \in {"idle", "returned"}
    /\ \E op \in CtOps, name \in Names, enc \in CtEncrypted :
         LET c == [cx EXCEPT !.op = op, !.name = IF op = "GetFiles" THEN <<>> ELSE name,
                             !.enc = IF op = "SaveFile" THEN enc ELSE CtIdle.enc,
                             !.atentry = cx.cancelled, !.before = files, !.out = CtNoOut]
         IN cx' = IF ctxDone(cx.cancelled)
                  THEN [c EXCEPT !.pc = "returned", !.out.err = "Canceled"]
                  ELSE [c EXCEPT !.pc = "checked"]
    /\ UNCHANGED files
    /\ CtKeep

\* the operation does its file system work and returns
CtRun ==
    /\ cx.pc = "checked"
    /\ LET r == CtBody(files, cx.op, cx.name, cx.enc) IN
       /\ files' = r.fs
       /\ cx' = [cx EXCEPT !.pc = "returned", !.out = r.out]
    /\ CtKeep

NextCtx == CtCancel \/ CtNewContext \/ CtEnter \/ CtRun

SpecCtx == InitCtx /\ [][NextCtx]_vars

\* C23: a repository operation entered with a cancelled context returns the
\* cancellation error without any system call and leaves the vault as it
\* was; an operation entered with a live context returns what its body
\* yields on the vault it found, a cancellation after the entry check or
\* not.
C23_CancelAtEntryOnly ==
    cx.pc = "returned" =>
        /\ cx.atentry =>
              /\ cx.out = [CtNoOut EXCEPT !.err = "Canceled"]
              /\ files = cx.before
        /\ ~cx.atentry =>
              /\ cx.out = CtBody(cx.before, cx.op, cx.name, cx.enc).out
              /\ files = CtBody(cx.before, cx.op, cx.name, cx.enc).fs
              /\ cx.out.err # "Canceled"
              /\ cx.out.io > 0

\* SaveFile was entered with a cancelled context over a vault that holds
\* a file
C23_Witness ==
    /\ cx.pc = "returned"
    /\ cx.op = "SaveFile"
    /\ cx.atentry
    /\ cx.out.err = "Canceled"
    /\ files # << >>
    /\ getFilePath(cx.name) \notin DOMAIN files

(***************************************************************************)
(* internal/format: UnmarshalSecret on arbitrary buffers                   *)
(***************************************************************************)
\* longest buffer decoded
MaxBufLen == 5

\* bytes of the buffers: 0, 1 and 2 as length bytes, "a" as content
RdBytes == {0, 1, 2, 97}

RdBuffers == UNION { [1..n -> RdBytes] : n \in 0..MaxBufLen }

RdIdle == [stage |-> "input", buf |-> <<>>, us |-> NoSecretOut, rec |-> <<>>]

InitRecord ==
    /\ files = << >>
    /\ mk = NoKey
    /\ call = [p \in Procs |-> Idle]
    /\ ret = [p \in Procs |-> NoRet]
    /\ stored = << >>
    /\ cx \in { [RdIdle EXCEPT !.buf = b] : b \in RdBuffers }

\* format.UnmarshalSecret applied to the buffer of the run
RdUnmarshalSecret ==
    /\ cx.stage = "input"
    /\ cx' = [cx EXCEPT !.stage = "decoded", !.us = UnmarshalSecret(cx.buf)]
    /\ UNCHANGED <<files, mk, call, ret, stored>>

\* format.MarshalSecret applied to the Secret that was decoded
RdMarshalSecret ==
    /\ cx.stage = "decoded" /\ cx.us.err = "nil"
    /\ cx' = [cx EXCEPT !.stage = "reencoded", !.rec = MarshalSecret(cx.us.secret)]
    /\ UNCHANGED <<files, mk, call, ret, stored>>

NextRecord == RdUnmarshalSecret \/ RdMarshalSecret

SpecRecord == InitRecord /\ [][NextRecord]_vars

\* the 16-bit big-endian number at the two bytes after the first off bytes
DeclaredLen(b, off) == b[off + 1] * 256 + b[off + 2]

\* a declared length reads past the end of the buffer: the buffer is shorter
\* than 2 bytes, the name length exceeds what remains, the 2-byte password
\* length is missing, or the password length exceeds what remains
ReadsPastEnd(b) ==
    \/ Len(b) < 2
    \/ DeclaredLen(b, 0) > Len(b) - 2
    \/ Len(b) - 2 - DeclaredLen(b, 0) < 2
    \/ DeclaredLen(b, 2 + DeclaredLen(b, 0)) > Len(b) - 4 - DeclaredLen(b, 0)

\* C24: UnmarshalSecret returns ErrCorruptedFile and no Secret exactly when
\* a declared length reads past the end of the buffer; every other buffer
\* decodes, to the name and the password the lengths delimit.
C24_CorruptedExactly ==
    cx.stage = "decoded" =>
        /\ cx.us.err = "ErrCorruptedFile" <=> ReadsPastEnd(cx.buf)
        /\ cx.us.err \in {"nil", "ErrCorruptedFile"}
        /\ cx.us.err # "nil" => cx.us.secret = EmptySecret
        /\ cx.us.err = "nil" =>
              LET n == DeclaredLen(cx.buf, 0) IN
              /\ cx.us.secret.Name = SubSeq(cx.buf, 3, 2 + n)
              /\ cx.us.secret.Password =
                    SubSeq(cx.buf, 5 + n, 4 + n + DeclaredLen(cx.buf, 2 + n))

\* a buffer whose password length is one more than the bytes that remain
\* was refused
C24_Witness ==
    /\ cx.stage = "decoded"
    /\ cx.us.err = "ErrCorruptedFile"
    /\ cx.buf = <<0, 0, 0, 2, 97>>

\* C25 (as stated): MarshalSecret of the Secret that UnmarshalSecret decoded
\* from a buffer is that buffer byte for byte.
C25_ReverseRoundTrip ==
    cx.stage = "reencoded" => cx.rec = cx.buf

SvProcs == {1, 2}
SvName(p) == IF p = 1 THEN <<97>> ELSE <<65>>

\* complete envelopes: the one stored before, and those the callers bring
SvEnvelope(ct) ==
    MarshalFile(randomBytes(MSK_SALT_SIZE, 0), randomBytes(MSK_NONCE_SIZE, 3), ct).file
SvPrior == SvEnvelope(<<5>>)
SvGiven == { SvEnvelope(<<7>>), SvEnvelope(<<8, 9>>) }

\* no open file
NoInode == 0

\* dir: path -> inode; inodes: inode -> content; next: the inode the next
\* created file gets; proc[p]: position of caller p, its envelope, the inode
\* its tmpFile descriptor is open on, and the error it returned
SvIdle == [pc |-> "idle", data |-> <<>>, fd |-> NoInode, err |-> "none"]

SvInits ==
    { [dir |-> << >>, inodes |-> << >>, next |-> 1, proc |-> [p \in SvProcs |-> SvIdle]],
      [dir |-> (getFilePath(SvName(1)) :> 1), inodes |-> (1 :> SvPrior), next |-> 2,
       proc |-> [p \in SvProcs |-> SvIdle]] }

InitSave2 ==
    /\ files = << >>
    /\ mk = NoKey
    /\ call = [p \in Procs |-> Idle]
    /\ ret = [p \in Procs |-> NoRet]
    /\ stored = << >>
    /\ cx \in SvInits

SvKeep == UNCHANGED <<files, mk, call, ret, stored>>

\* SaveFile(encryptedFile, name) is called
SvCall(p) ==
    /\ cx.proc[p].pc = "idle"
    /\ \E d \in SvGiven : cx' = [cx EXCEPT !.proc[p] = [SvIdle EXCEPT !.pc = "open", !.data = d]]
    /\ SvKeep

\* os.OpenFile(tmpPath, O_CREATE|O_WRONLY|O_TRUNC): an existing file is
\* cut to length 0 and opened, a missing one is created
SvOpen(p) ==
    /\ cx.proc[p].pc = "open"
    /\ LET tmp == tmpPathOf(SvName(p)) IN
       IF tmp \in DOMAIN cx.dir
       THEN cx' = [cx EXCEPT !.inodes[cx.dir[tmp]] = <<>>,
                             !.proc[p].fd = cx.dir[tmp], !.proc[p].pc = "write"]
       ELSE cx' = [cx EXCEPT !.dir = (tmp :> cx.next) @@ cx.dir,
                             !.inodes = (cx.next :> <<>>) @@ cx.inodes,
                             !.next = cx.next + 1,
                             !.proc[p].fd = cx.next, !.proc[p].pc = "write"]
    /\ SvKeep

\* tmpFile.Write(encryptedFile) at offset 0 of the open file, then
\* tmpFile.Sync() and tmpFile.Close()
SvWrite(p) ==
    /\ cx.proc[p].pc = "write"
    /\ LET d == cx.proc[p].data
           old == cx.inodes[cx.proc[p].fd]
       IN cx' = [cx EXCEPT !.inodes[cx.proc[p].fd] =
                              d \o SubSeq(old, Len(d) + 1, Len(old)),
                           !.proc[p].pc = "rename"]
    /\ SvKeep

\* os.Rename(tmpPath, path); it fails when tmpPath is gone
SvRename(p) ==
    /\ cx.proc[p].pc = "rename"
    /\ LET tmp == tmpPathOf(SvName(p))
           path == getFilePath(SvName(p))
       IN
       IF tmp \in DOMAIN cx.dir
       THEN cx' = [cx EXCEPT !.dir = (path :> cx.dir[tmp])
                                     @@ [q \in DOMAIN cx.dir \ {tmp} |-> cx.dir[q]],
                             !.proc[p].pc = "return", !.proc[p].err = "nil"]
       ELSE cx' = [cx EXCEPT !.proc[p].pc = "return", !.proc[p].err = "ErrIO"]
    /\ SvKeep

\* the directory sync and the return: the deferred tmpFile.Close() and
\* os.Remove(tmpPath) run
SvReturn(p) ==
    /\ cx.proc[p].pc = "return"
    /\ LET tmp == tmpPathOf(SvName(p)) IN
       cx' = [cx EXCEPT !.dir = [q \in DOMAIN cx.dir \ {tmp} |-> cx.dir[q]],
                        !.proc[p].pc = "returned", !.proc[p].fd = NoInode]
    /\ SvKeep

NextSave2 ==
    \E p \in SvProcs : SvCall(p) \/ SvOpen(p) \/ SvWrite(p) \/ SvRename(p) \/ SvReturn(p)

SpecSave2 == InitSave2 /\ [][NextSave2]_vars

\* the content of the file under the real name, if there is one
SvReal == cx.inodes[cx.dir[getFilePath(SvName(1))]]

\* C27 (as stated): while two SaveFile calls for one name run in any
\* interleaving, the file under the real name is absent, the envelope stored
\* before, or one complete envelope of the two calls; and when both calls
\* have returned no .tmp file remains.
C27_ConcurrentSaveAtomic ==
    /\ getFilePath(SvName(1)) \in DOMAIN cx.dir =>
          SvReal \in {SvPrior, cx.proc[1].data, cx.proc[2].data} \ {<<>>}
    /\ (\A p \in SvProcs : cx.proc[p].pc = "returned") =>
          tmpPathOf(SvName(1)) \notin DOMAIN cx.dir

(***************************************************************************)
(* internal/app: two AddSecret calls on one service                        *)
(***************************************************************************)
AdProcs == {1, 2}

\* names and passwords the callers add: "a" or "A", "p" or "q"
AdNames == { <<97>>, <<65>> }
AdPasswords == { <<112>>, <<113>> }

\* proc[p]: position of caller p ("idle", "encrypt", "save", "returned"),
\* what it adds, the envelope Encrypt gave it and the error it returned;
\* first: path -> the password of the first AddSecret that returned nil
AdIdle == [pc |-> "idle", name |-> <<>>, pw |-> <<>>, data |-> <<>>, err |-> "none"]

InitAdd2 ==
    /\ files \in { << >>,
                   PutFile(<< >>, getFilePath(<<97>>),
                           Encrypt(ConfigMK(<<107>>),
                                   [Name |-> <<97>>, Password |-> <<111>>, CreatedAt |-> 1],
                                   0, 3).data) }
    /\ mk = ConfigMK(<<107>>)
    /\ call = [p \in Procs |-> Idle]
    /\ ret = [p \in Procs |-> NoRet]
    /\ stored = << >>
    /\ cx = [proc |-> [p \in AdProcs |-> AdIdle], first |-> << >>]

AdKeep == UNCHANGED <<mk, call, ret, stored>>

\* AddSecret is called: s.repo.FileExists(name)
AdFileExists(p) ==
    /\ cx.proc[p].pc = "idle"
    /\ \E name \in AdNames, pw \in AdPasswords :
         cx' = [cx EXCEPT !.proc[p] =
                  IF FileExists(files, name)
                  THEN [AdIdle EXCEPT !.pc = "returned", !.name = name, !.pw = pw,
                                      !.err = "ErrSecretExists"]
                  ELSE [AdIdle EXCEPT !.pc = "encrypt", !.name = name, !.pw = pw]]
    /\ UNCHANGED files
    /\ AdKeep

\* s.crypto.Encrypt(secret)
AdEncrypt(p) ==
    /\ cx.proc[p].pc = "encrypt"
    /\ LET c == cx.proc[p]
           e == Encrypt(mk, [Name |-> c.name, Password |-> c.pw, CreatedAt |-> 1], 0, 3)
       IN cx' = [cx EXCEPT !.proc[p] =
                   IF e.err # "nil" THEN [c EXCEPT !.pc = "returned", !.err = e.err]
                   ELSE [c EXCEPT !.pc = "save", !.data = e.data]]
    /\ UNCHANGED files
    /\ AdKeep

\* return s.repo.SaveFile(encryptionResult, name), run without interruption
AdSaveFile(p) ==
    /\ cx.proc[p].pc = "save"
    /\ LET c == cx.proc[p]
           path == getFilePath(c.name)
       IN
       /\ files' = PutFile(files, path, c.data)
       /\ cx' = [cx EXCEPT !.proc[p] = [c EXCEPT !.pc = "returned", !.err = "nil"],
                           !.first = IF path \in DOMAIN cx.first THEN cx.first
                                     ELSE (path :> c.pw) @@ cx.first]
    /\ AdKeep

NextAdd2 == \E p \in AdProcs : AdFileExists(p) \/ AdEncrypt(p) \/ AdSaveFile(p)

SpecAdd2 == InitAdd2 /\ [][NextAdd2]_vars

\* C28 (as stated): of two AddSecret calls for one name that interleave, at
\* most one returns nil, and the secret an AddSecret stored with success is
\* the one the vault goes on holding.
C28_AddsExclusive ==
    /\ (/\ cx.proc[1].pc = "returned" /\ cx.proc[2].pc = "returned"
        /\ SameName(cx.proc[1].name, cx.proc[2].name))
          => ~(cx.proc[1].err = "nil" /\ cx.proc[2].err = "nil")
    /\ \A path \in DOMAIN cx.first :
          Decrypt(mk, files[path].data).secret.Password = cx.first[path]

(***************************************************************************)
(* internal/cli: whole commands, one after another, on config and vaults   *)
(***************************************************************************)
\* names and the password the commands store: "a", "b"; "p"
VcNames == { <<97>>, <<98>> }
VcPassword == <<112>>

\* cfs: the config directory; vaults: vault path -> vault directory;
\* last: the command that ran last and the error it ended with
VcInits ==
    { [cfs |-> c, vaults |-> [v \in VaultPaths |-> << >>],
       last |-> [cmd |-> "none", err |-> "none"]] : c \in CliConfigs }

InitVault ==
    /\ files = << >>
    /\ mk = NoKey
    /\ call = [p \in Procs |-> Idle]
    /\ ret = [p \in Procs |-> NoRet]
    /\ stored = << >>
    /\ cx \in VcInits

VcKeep == UNCHANGED <<files, call, ret, stored>>

\* the PersistentPreRunE of the root command under the password typed:
\* ConfigMK, config.Load, storage.NewStore
VcPreRun(typed) == ConfigLoad(cx.cfs, ConfigMK(typed))

\* msk config: the pre-run hook, then RunE with the overwrite confirmed, a
\* vault path and a confirmed master password typed: ConfigMK, config.Save;
\* the post-run hook destroys the key
VcConfig ==
    /\ \E typed \in MKs, v \in VaultPaths, k \in MKs :
         LET pre == VcPreRun(typed)
             sv == ConfigSave(cx.cfs, ConfigMK(k), v, 0, 3, "ok")
         IN cx' = IF pre.err # "nil"
                  THEN [cx EXCEPT !.last = [cmd |-> "config", err |-> pre.err]]
                  ELSE [cx EXCEPT !.cfs = sv.cfs, !.last = [cmd |-> "config", err |-> sv.err]]
    /\ mk' = DestroyMK
    /\ VcKeep

\* msk add <name>: the pre-run hook, then AddSecret on the vault of the
\* config; the key is destroyed or purged at the end
VcAdd ==
    /\ \E typed \in MKs, name \in VcNames :
         LET pre == VcPreRun(typed)
             fs == cx.vaults[pre.path]
             e == Encrypt(ConfigMK(typed),
                          [Name |-> name, Password |-> VcPassword, CreatedAt |-> 1], 0, 3)
         IN cx' = IF pre.err # "nil"
                    THEN [cx EXCEPT !.last = [cmd |-> "add", err |-> pre.err]]
                  ELSE IF FileExists(fs, name)
                    THEN [cx EXCEPT !.last = [cmd |-> "add", err |-> "ErrSecretExists"]]
                  ELSE [cx EXCEPT !.vaults[pre.path] = PutFile(fs, getFilePath(name), e.data),
                                  !.last = [cmd |-> "add", err |-> e.err]]
    /\ mk' = DestroyMK
    /\ VcKeep

\* msk del <name>: the pre-run hook, then DeleteSecret on the vault of the
\* config
VcDelete ==
    /\ \E typed \in MKs, name \in VcNames :
         LET pre == VcPreRun(typed)
             d == DeleteFile(cx.vaults[pre.path], name)
         IN cx' = IF pre.err # "nil"
                  THEN [cx EXCEPT !.last = [cmd |-> "del", err |-> pre.err]]
                  ELSE [cx EXCEPT !.vaults[pre.path] = d.fs,
                                  !.last = [cmd |-> "del", err |-> d.err]]
    /\ mk' = DestroyMK
    /\ VcKeep

NextVault == VcConfig \/ VcAdd \/ VcDelete

SpecVault == InitVault /\ [][NextVault]_vars

\* C29 (as stated): after any sequence of config, add and del commands,
\* every secret file in the vault directory the config names decrypts under
\* the master password that unlocks the config.
C29_VaultUnderConfigKey ==
    \A k \in MKs :
        LET l == ConfigLoad(cx.cfs, ConfigMK(k)) IN
        l.err = "nil" =>
            \A path \in DOMAIN cx.vaults[l.path] :
                Decrypt(ConfigMK(k), cx.vaults[l.path][path].data).err = "nil"

(***************************************************************************)
(* internal/validator, internal/storage: names and the paths made of them  *)
(***************************************************************************)
\* longest name drawn from the alphabet
MaxNameLen == 3

\* "a", "A", "0", "-", "_", "/", "\", ".", " " and the control character BEL
NmAlphabet == {97, 65, 48, 45, 95, 47, 92, 46, 32, 7}

\* names of the limit lengths, and reserved names in either case
NmSpecial ==
    { [i \in 1..255 |-> 84], [i \in 1..256 |-> 84],
      <<99, 111, 110>>, <<67, 79, 78>>, <<110, 117, 108>>, <<99, 111, 109, 49>> }

NmNames == UNION { [1..n -> NmAlphabet] : n \in 0..MaxNameLen } \cup NmSpecial

windowsReservedNames ==
    { <<99, 111, 110>>, <<112, 114, 110>>, <<97, 117, 120>>, <<110, 117, 108>>,
      <<99, 111, 109, 49>>, <<99, 111, 109, 50>>, <<99, 111, 109, 51>>, <<99, 111, 109, 52>>,
      <<99, 111, 109, 53>>, <<99, 111, 109, 54>>, <<99, 111, 109, 55>>, <<99, 111, 109, 56>>,
      <<99, 111, 109, 57>>, <<108, 112, 116, 49>>, <<108, 112, 116, 50>>, <<108, 112, 116, 51>>,
      <<108, 112, 116, 52>>, <<108, 112, 116, 53>>, <<108, 112, 116, 54>>, <<108, 112, 116, 55>>,
      <<108, 112, 116, 56>>, <<108, 112, 116, 57>> }

\* unicode.IsControl on a byte
IsControl(c) == c < 32 \/ c \in 127..159

\* validPattern: ^[A-Za-z0-9_\-]+$
validPattern(name) ==
    /\ name # <<>>
    /\ \A i \in 1..Len(name) :
         name[i] \in (65..90) \cup (97..122) \cup (48..57) \cup {95, 45}

\* ValidateName without the separator and the pattern checks
ValidateName_NoCharset(name) ==
    IF name = <<>> THEN "ErrEmptyName"
    ELSE IF Len(name) > 255 THEN "ErrNameTooLong"
    ELSE IF \E i \in 1..Len(name) : IsControl(name[i]) THEN "ErrControlCharacter"
    ELSE IF \E i \in 1..Len(name) : name[i] \in {32, 9, 10, 13} THEN "ErrWhitespace"
    ELSE "nil"

\* validator.ValidateName
ValidateName(name) ==
    IF name = <<>> THEN "ErrEmptyName"
    ELSE IF Len(name) > 255 THEN "ErrNameTooLong"
    ELSE IF \E i \in 1..Len(name) : IsControl(name[i]) THEN "ErrControlCharacter"
    ELSE IF \E i \in 1..Len(name) : name[i] \in {32, 9, 10, 13} THEN "ErrWhitespace"
    ELSE IF \E i \in 1..Len(name) : name[i] \in {47, 92} THEN "ErrPathSeparator"
    ELSE IF ~validPattern(name) THEN "ErrInvalidCharacters"
    ELSE "nil"

\* validator.ValidateWindowsReservedName
ValidateWindowsReservedName(name) ==
    IF ToLower(name) \in windowsReservedNames THEN "ErrReservedName" ELSE "nil"

\* validator.Validate
Validate(name) ==
    IF ValidateName(name) # "nil" THEN ValidateName(name)
    ELSE ValidateWindowsReservedName(name)

\* Store.dir as path elements: the directory "v" under the root
VaultDir == << <<118>> >>

\* the elements of a path string: cut at "/" and at "\"
SplitPath(str) ==
    LET cuts == {0, Len(str) + 1} \cup { i \in 1..Len(str) : str[i] \in {47, 92} }
        cut(k) == CHOOSE c \in cuts : Cardinality({ d \in cuts : d < c }) = k
    IN [k \in 1..(Cardinality(cuts) - 1) |-> SubSeq(str, cut(k - 1) + 1, cut(k) - 1)]

\* filepath.Clean on the elements of a rooted path
RECURSIVE CleanPath(_, _)
CleanPath(elems, acc) ==
    IF elems = <<>> THEN acc
    ELSE LET e == Head(elems) IN
         IF e = <<>> \/ e = <<46>> THEN CleanPath(Tail(elems), acc)
         ELSE IF e = <<46, 46>>
           THEN CleanPath(Tail(elems),
                          IF acc = <<>> THEN acc ELSE SubSeq(acc, 1, Len(acc) - 1))
         ELSE CleanPath(Tail(elems), Append(acc, e))

\* Store.secretPath: filepath.Join(s.dir, strings.ToLower(name)+".msk")
secretPath(name) == CleanPath(VaultDir \o SplitPath(ToLower(name) \o DotMsk), <<>>)

\* the temporary file of SaveFile: path + ".tmp"
secretTmpPath(name) ==
    CleanPath(VaultDir \o SplitPath(ToLower(name) \o DotMsk \o DotTmp), <<>>)

NmCommands == {"add", "get", "update", "del"}

\* the paths the repository reads, writes or removes for a command
NmTouched(cmd, name) ==
    IF cmd \in {"add", "update"} THEN {secretPath(name), secretTmpPath(name)}
    ELSE {secretPath(name)}

NmIdle == [stage |-> "input", name |-> <<>>, cmd |-> "none", err |-> "none", touched |-> {}]

InitName ==
    /\ files = << >>
    /\ mk = NoKey
    /\ call = [p \in Procs |-> Idle]
    /\ ret = [p \in Procs |-> NoRet]
    /\ stored = << >>
    /\ cx \in { [NmIdle EXCEPT !.name = n] : n \in NmNames }

\* validator.Validate applied to the name of the run
NmValidate ==
    /\ cx.stage = "input"
    /\ cx' = [cx EXCEPT !.stage = "validated", !.err = Validate(cx.name)]
    /\ UNCHANGED <<files, mk, call, ret, stored>>

\* RunE of add, get, update or del with the name as its argument:
\* validator.Validate, and the service call only when it returned nil
NmCommand ==
    /\ cx.stage = "input"
    /\ \E cmd \in NmCommands :
         cx' = [cx EXCEPT !.stage = "ran", !.cmd = cmd, !.err = Validate(cx.name),
                          !.touched = IF Validate(cx.name) # "nil" THEN {}
                                      ELSE NmTouched(cmd, cx.name)]
    /\ UNCHANGED <<files, mk, call, ret, stored>>

NextName == NmValidate \/ NmCommand

SpecName == InitName /\ [][NextName]_vars

\* C30: Validate accepts exactly the names of 1 to 255 letters, digits,
\* hyphens and underscores that are not reserved device names; for each of
\* them the path of the store is the direct child lower(name)+".msk" of the
\* vault directory and every path a command touches is a direct child of the
\* vault directory; a name with a path separator, a dot, whitespace or a
\* control character is refused and the repository is not called.
C30_AcceptedNamesInsideVault ==
    cx.stage # "input" =>
        /\ cx.err = "nil" <=>
              /\ Len(cx.name) \in 1..255
              /\ \A i \in 1..Len(cx.name) :
                   cx.name[i] \in (65..90) \cup (97..122) \cup (48..57) \cup {45, 95}
              /\ ToLower(cx.name) \notin windowsReservedNames
        /\ cx.err = "nil" => secretPath(cx.name) = VaultDir \o << ToLower(cx.name) \o DotMsk >>
        /\ \A q \in cx.touched :
              Len(q) = Len(VaultDir) + 1 /\ SubSeq(q, 1, Len(VaultDir)) = VaultDir
        /\ (\E i \in 1..Len(cx.name) :
               cx.name[i] \in {47, 92, 46, 32, 9, 10, 13} \/ IsControl(cx.name[i]))
              => (cx.err # "nil" /\ cx.touched = {})
        /\ (cx.stage = "ran" /\ cx.err = "nil") => secretPath(cx.name) \in cx.touched

\* add ran with the name "A-" and wrote under the vault directory
C30_Witness ==
    /\ cx.stage = "ran"
    /\ cx.cmd = "add"
    /\ cx.name = <<65, 45>>
    /\ cx.err = "nil"
    /\ cx.touched = { <<<<118>>, <<97, 45, 46, 109, 115, 107>>>>,
                      <<<<118>>, <<97, 45, 46, 109, 115, 107, 46, 116, 109, 112>>>> }

====
